---- MODULE Spec2Model ----
(***************************************************************************)
(* Model of the addok-docker observability layer:                          *)
(*   monitoring/telemetry.py         AddokTelemetry (tracer, meter, init)  *)
(*   monitoring/falcon_middleware.py OpenTelemetryMiddleware and           *)
(*                                   MetricsMiddleware (the three hooks)   *)
(*   monitoring/metrics_endpoint.py  the Prometheus recording functions    *)
(*   wsgi_otel.py, gunicorn.conf.py  worker start-up and the resources     *)
(*                                                                         *)
(* Python strings are sequences of one-character strings, so that slicing  *)
(* (resp.status[:3]), str.startswith and int() are computed as the code    *)
(* computes them.  The empty sequence stands for both None and "" (every   *)
(* use in the code tests truthiness only).                                 *)
(***************************************************************************)
EXTENDS Integers, Sequences, FiniteSets, TLC

VARIABLES
    pc,          \* worker life cycle: "post_fork", "create_application", "serving",
                 \* "exited"; "helpers" when helper functions are called alone
    worker_class,\* gunicorn worker_class: "sync" serves one request at a time
    telemetry,   \* the global AddokTelemetry instance
    globalTP,    \* opentelemetry's global tracer provider (0 = not set)
    middleware,  \* the telemetry middleware installed in the Falcon app
    clock,       \* time.time()
    served,      \* number of requests accepted so far
    req,         \* per worker thread: the request being processed
    spans,       \* the live span objects, by span id
    ambient,     \* per worker thread: the ambient trace context (contextvar)
    gauge,       \* the addok_active_requests up/down counter
    spanStats,    \* spans started / ended over the process lifetime
    injected,    \* a tracing API call was made to raise since the worker booted
    call         \* the last helper function called on its own, or the shutdown
                 \* hooks of the worker: name, arguments, result

vars == <<pc, worker_class, telemetry, globalTP, middleware, clock, served,
          req, spans, ambient, gauge, spanStats, injected, call>>

----------------------------------------------------------------------------
(* Bounds *)

MaxRequests == 2

\* The number of recording functions called in a row on one registry.
MaxRecordings == 2

\* The number of middleware hooks called in a row on one gauge.
MaxHooks == 3

\* The number of scrapes of /metrics made in a row.
MaxScrapes == 2

Threads == {1, 2}

----------------------------------------------------------------------------
(* Python string helpers *)

Digits == <<"0", "1", "2", "3", "4", "5", "6", "7", "8", "9">>

IsDigit(c) == \E i \in 1..10 : Digits[i] = c

DigitVal(c) == (CHOOSE i \in 1..10 : Digits[i] = c) - 1

\* s[:n]
Take(s, n) == SubSeq(s, 1, IF Len(s) < n THEN Len(s) ELSE n)

\* s.startswith(p)
StartsWith(s, p) == Len(s) >= Len(p) /\ SubSeq(s, 1, Len(p)) = p

RECURSIVE LStrip(_)
LStrip(s) == IF s # <<>> /\ Head(s) = " " THEN LStrip(Tail(s)) ELSE s

RECURSIVE RStrip(_)
RStrip(s) ==
    IF s # <<>> /\ s[Len(s)] = " " THEN RStrip(SubSeq(s, 1, Len(s) - 1)) ELSE s

\* s.strip()
Strip(s) == RStrip(LStrip(s))

RECURSIVE DigitsValue(_, _)
DigitsValue(s, acc) ==
    IF s = <<>> THEN acc
    ELSE IF Head(s) = "_" THEN DigitsValue(Tail(s), acc)
    ELSE DigitsValue(Tail(s), 10 * acc + DigitVal(Head(s)))

\* the digit part of an int() literal: digits, single underscores between them
IsDigitString(s) ==
    /\ s # <<>>
    /\ IsDigit(s[1]) /\ IsDigit(s[Len(s)])
    /\ \A i \in 1..Len(s) : IsDigit(s[i]) \/ s[i] = "_"
    /\ \A i \in 1..(Len(s) - 1) : ~(s[i] = "_" /\ s[i + 1] = "_")

\* int(s): [raised |-> TRUE] stands for ValueError
PyInt(s) ==
    LET t == Strip(s)
        signed == t # <<>> /\ t[1] \in {"+", "-"}
        d == IF signed THEN Tail(t) ELSE t
    IN IF IsDigitString(d)
       THEN [raised |-> FALSE,
             val |-> IF signed /\ t[1] = "-" THEN 0 - DigitsValue(d, 0)
                     ELSE DigitsValue(d, 0)]
       ELSE [raised |-> TRUE, val |-> 0]

RECURSIVE NatToStr(_)
\* str(n) for n >= 0
NatToStr(n) ==
    IF n < 10 THEN <<Digits[n + 1]>>
    ELSE NatToStr(n \div 10) \o <<Digits[(n % 10) + 1]>>

\* str(n)
IntToStr(n) == IF n < 0 THEN <<"-">> \o NatToStr(0 - n) ELSE NatToStr(n)


----------------------------------------------------------------------------
(* String literals of the program *)

S_GET == <<"G", "E", "T">>
S_search == <<"s", "e", "a", "r", "c", "h">>
S_reverse == <<"r", "e", "v", "e", "r", "s", "e">>
S_unknown == <<"u", "n", "k", "n", "o", "w", "n">>
S_error == <<"e", "r", "r", "o", "r">>
S_success == <<"s", "u", "c", "c", "e", "s", "s">>
S_no_results == <<"n", "o", "_", "r", "e", "s", "u", "l", "t", "s">>
S_HTTP_ == <<"H", "T", "T", "P", "_">>
S_200 == <<"2", "0", "0">>

P_search == <<"/", "s", "e", "a", "r", "c", "h">>
P_reverse == <<"/", "r", "e", "v", "e", "r", "s", "e">>
P_health == <<"/", "h", "e", "a", "l", "t", "h">>
P_metrics == <<"/", "m", "e", "t", "r", "i", "c", "s">>
P_health_metrics == <<"/", "h", "e", "a", "l", "t", "h", "/", "m", "e", "t", "r", "i", "c", "s">>
P_other == <<"/", "x">>

OP_geocode_search == <<"g", "e", "o", "c", "o", "d", "e", "_", "s", "e", "a", "r", "c", "h">>
OP_geocode_reverse == <<"g", "e", "o", "c", "o", "d", "e", "_", "r", "e", "v", "e", "r", "s", "e">>
OP_health_check == <<"h", "e", "a", "l", "t", "h", "_", "c", "h", "e", "c", "k">>
OP_metrics == <<"m", "e", "t", "r", "i", "c", "s">>

\* falcon.HTTP_200, falcon.HTTP_404, falcon.HTTP_500
HTTP_200 == <<"2", "0", "0", " ", "O", "K">>
HTTP_404 == <<"4", "0", "4", " ", "N", "o", "t", " ", "F", "o", "u", "n", "d">>
HTTP_500 == <<"5", "0", "0", " ", "I", "n", "t", "e", "r", "n", "a", "l", " ", "S", "e", "r", "v", "e", "r", " ", "E", "r", "r", "o", "r">>

\* f"HTTP_{health_response[1]}" as HealthMetricsResource.on_get builds it
HealthStatusLine(code) == S_HTTP_ \o IntToStr(code)

----------------------------------------------------------------------------
(* telemetry.py: AddokTelemetry *)

\* AddokTelemetry.__init__: tracer_provider and tracer are 0 for None, else
\* the number of the TracerProvider they belong to; metrics is TRUE when the
\* metrics dict is non-empty.
NewTelemetry ==
    [tracer_provider |-> 0, tracer |-> 0, metrics |-> FALSE, initialized |-> FALSE]

\* What a call of initialize_tracing / initialize_metrics can meet.
\* "otlp_raises": the OTLP exporter or its processor cannot be constructed;
\* "processor_raises": no span processor can be constructed at all.
TracingOutcomes == {"ok", "provider_raises", "otlp_raises", "processor_raises"}

\* OTEL_EXPORTER_OTLP_ENDPOINT is set; the OTLP exporter package was imported
Environments == [otlp_endpoint : BOOLEAN, OTLP_AVAILABLE : BOOLEAN]
MetricsOutcomes == {"ok", "provider_raises", "custom_metrics_raise"}

\* trace.set_tracer_provider: the global provider is set once, later calls
\* are refused.
set_tracer_provider(gtp, provider) == IF gtp = 0 THEN provider ELSE gtp

\* initialize_tracing where a failing OTLP exporter is not replaced
initialize_tracing_no_fallback(tel, gtp, env, outcome) ==
    IF outcome = "provider_raises"
    THEN [tel |-> tel, gtp |-> gtp, ok |-> FALSE, exporters |-> <<>>]
    ELSE LET provider == tel.tracer_provider + 1
             tel1 == [tel EXCEPT !.tracer_provider = provider]
             gtp1 == set_tracer_provider(gtp, provider)
             use_otlp == env.otlp_endpoint /\ env.OTLP_AVAILABLE
         IN IF outcome = "processor_raises" \/ (use_otlp /\ outcome = "otlp_raises")
            THEN [tel |-> tel1, gtp |-> gtp1, ok |-> FALSE, exporters |-> <<>>]
            ELSE [tel |-> [tel1 EXCEPT !.tracer = gtp1], gtp |-> gtp1, ok |-> TRUE,
                  exporters |-> IF use_otlp THEN <<"otlp">> ELSE <<"console">>]

\* initialize_tracing: a new TracerProvider is stored and offered as the
\* global one, the exporter is added, then the tracer is taken from the
\* global provider.  An exception leaves what was assigned before it.
\* exporters lists the span processors added to the new provider: the OTLP
\* one when the endpoint is set and the package imported, the console one
\* when that construction raises or in the else branch.
initialize_tracing(tel, gtp, env, outcome) ==
    IF outcome = "provider_raises"
    THEN [tel |-> tel, gtp |-> gtp, ok |-> FALSE, exporters |-> <<>>]
    ELSE LET provider == tel.tracer_provider + 1
             tel1 == [tel EXCEPT !.tracer_provider = provider]
             gtp1 == set_tracer_provider(gtp, provider)
             use_otlp == env.otlp_endpoint /\ env.OTLP_AVAILABLE
         IN IF outcome = "processor_raises"
            THEN [tel |-> tel1, gtp |-> gtp1, ok |-> FALSE, exporters |-> <<>>]
            ELSE [tel |-> [tel1 EXCEPT !.tracer = gtp1], gtp |-> gtp1, ok |-> TRUE,
                  exporters |-> IF use_otlp /\ outcome = "ok"
                                THEN <<"otlp">> ELSE <<"console">>]

\* initialize_metrics: _initialize_custom_metrics swallows its own failure,
\* leaving self.metrics as it was, and initialize_metrics still returns True.
initialize_metrics(tel, outcome) ==
    CASE outcome = "provider_raises" -> [tel |-> tel, ok |-> FALSE]
      [] outcome = "custom_metrics_raise" -> [tel |-> tel, ok |-> TRUE]
      [] OTHER -> [tel |-> [tel EXCEPT !.metrics = TRUE], ok |-> TRUE]

\* What initialize_datadog can meet: ddtrace not importable, DD_TRACE_ENABLED
\* not "true", the configuration done, or a step of it raising.
DatadogOutcomes == {"unavailable", "disabled", "ok", "raises"}

\* initialize_datadog: True only when ddtrace was configured; it touches no
\* attribute of the telemetry object.
initialize_datadog(outcome) == outcome = "ok"

\* initialize_all where Datadog has to succeed too
initialize_all_datadog_required(tel, gtp, env, tracing, metrics, datadog) ==
    IF tel.initialized
    THEN [tel |-> tel, gtp |-> gtp, ok |-> TRUE, datadog |-> FALSE]
    ELSE LET a == initialize_tracing(tel, gtp, env, tracing)
             b == initialize_metrics(a.tel, metrics)
             datadog_success == initialize_datadog(datadog)
             success == a.ok /\ b.ok /\ datadog_success
         IN [tel |-> [b.tel EXCEPT !.initialized = success],
             gtp |-> a.gtp, ok |-> success, datadog |-> datadog_success]

\* initialize_all (app is None: no auto-instrumentation).  datadog is the
\* Datadog status the last log line reports.
initialize_all(tel, gtp, env, tracing, metrics, datadog) ==
    IF tel.initialized
    THEN [tel |-> tel, gtp |-> gtp, ok |-> TRUE, datadog |-> FALSE]
    ELSE LET a == initialize_tracing(tel, gtp, env, tracing)
             b == initialize_metrics(a.tel, metrics)
             datadog_success == initialize_datadog(datadog)
             success == a.ok /\ b.ok
         IN [tel |-> [b.tel EXCEPT !.initialized = success],
             gtp |-> a.gtp, ok |-> success, datadog |-> datadog_success]

\* get_tracer
get_tracer(tel) == tel.tracer

\* _cleanup_telemetry, the atexit hook; fault: force_flush raises
_cleanup_telemetry(tel, fault) ==
    [flushes |-> IF tel.tracer_provider # 0
                 THEN <<[provider |-> tel.tracer_provider, timeout_millis |-> 30000]>>
                 ELSE <<>>,
     raised |-> FALSE]

\* worker_exit with an except clause that re-raises
worker_exit_reraises(tel, fault) ==
    [flushes |-> IF tel.tracer_provider # 0
                 THEN <<[provider |-> tel.tracer_provider, timeout_millis |-> 30000]>>
                 ELSE <<>>,
     raised |-> tel.tracer_provider # 0 /\ fault]

\* gunicorn.conf.py worker_exit; fault: force_flush raises
worker_exit(tel, fault) ==
    [flushes |-> IF tel.tracer_provider # 0
                 THEN <<[provider |-> tel.tracer_provider, timeout_millis |-> 30000]>>
                 ELSE <<>>,
     raised |-> FALSE]

\* increment_active_requests on a monotonic counter: add(-1) is refused
increment_active_requests_monotonic(tel, g, delta) ==
    IF ~tel.metrics \/ delta < 0 THEN g ELSE [g EXCEPT !.incs = @ + 1]

\* increment_active_requests: a no-op while the metrics dict is empty
increment_active_requests(tel, g, delta) ==
    IF ~tel.metrics THEN g
    ELSE IF delta > 0 THEN [g EXCEPT !.incs = @ + 1]
    ELSE [g EXCEPT !.decs = @ + 1]

\* _get_length_range
_get_length_range(length) ==
    IF length <= 10 THEN <<"0", "-", "1", "0">>
    ELSE IF length <= 50 THEN <<"1", "1", "-", "5", "0">>
    ELSE IF length <= 100 THEN <<"5", "1", "-", "1", "0", "0">>
    ELSE <<"1", "0", "0", "+">>

\* _get_results_range
_get_results_range(count) ==
    IF count = 0 THEN <<"0">>
    ELSE IF count <= 5 THEN <<"1", "-", "5">>
    ELSE IF count <= 20 THEN <<"6", "-", "2", "0">>
    ELSE <<"2", "0", "+">>

\* One recording made in a metric registry.
Event(metric, labels, value) == [metric |-> metric, labels |-> labels, value |-> value]

\* AddokTelemetry.record_geocoding_request
telemetry_record_geocoding_request(tel, endpoint, status, duration, query_length, results_count) ==
    IF ~tel.metrics THEN <<>>
    ELSE LET attributes == <<endpoint, status, _get_length_range(query_length),
                             _get_results_range(results_count)>>
         IN <<Event("otel_geocoding_requests_total", attributes, 1),
              Event("otel_geocoding_requests_duration", attributes, duration)>>

\* AddokTelemetry.record_error
telemetry_record_error(tel, error_type, endpoint) ==
    IF ~tel.metrics THEN <<>>
    ELSE <<Event("otel_errors_total", <<error_type, endpoint>>, 1)>>

----------------------------------------------------------------------------
(* metrics_endpoint.py: the Prometheus recording functions *)

\* record_http_request
record_http_request(method, endpoint, status_code, duration) ==
    <<Event("addok_http_requests_total", <<method, endpoint, IntToStr(status_code)>>, 1),
      Event("addok_http_request_duration_seconds", <<method, endpoint>>, duration)>>

\* record_geocoding_operation
record_geocoding_operation(operation_type, result_status, duration) ==
    <<Event("addok_geocoding_operations_total", <<operation_type, result_status>>, 1),
      Event("addok_response_time_seconds", <<operation_type>>, duration)>>

\* record_error (severity defaults to 'error')
record_error(error_type) ==
    <<Event("addok_errors_total", <<error_type, S_error>>, 1)>>

\* The try block of a recording function: its instrument calls are made in
\* order; the call number `failing` raises (0: none does), e.g. labels()
\* on a missing label, and what was recorded before it stays recorded.
RecordingTry(events, failing) ==
    IF failing \in 1..Len(events)
    THEN [raised |-> TRUE, events |-> SubSeq(events, 1, failing - 1)]
    ELSE [raised |-> FALSE, events |-> events]

\* a recording function whose except clause re-raises
Recording_reraises(events, failing) == RecordingTry(events, failing)

\* A recording function: the try block and `except Exception: logger.debug`
Recording(events, failing) == [RecordingTry(events, failing) EXCEPT !.raised = FALSE]

\* the series a sequence of instrument calls writes to
SeriesOf(events) == {<<events[i].metric, events[i].labels>> : i \in DOMAIN events}

\* instrument calls that start their series anew
Recorded_fresh(registry, events) ==
    [s \in SeriesOf(events) |->
        Cardinality({i \in DOMAIN events : <<events[i].metric, events[i].labels>> = s})]

\* The registry (series -> number of samples) after the instrument calls
\* `events`: labels(...) creates the child series on first use and returns
\* the existing one afterwards, inc() / observe() add one sample to it.
Recorded(registry, events) ==
    LET new == Recorded_fresh(registry, events)
    IN [s \in DOMAIN registry \cup DOMAIN new |->
           (IF s \in DOMAIN registry THEN registry[s] ELSE 0)
           + (IF s \in DOMAIN new THEN new[s] ELSE 0)]

\* The steps of a /metrics scrape that may raise: psutil in
\* _update_system_metrics, health_status.state in
\* _update_application_metrics, generate_latest, and the decoding of the
\* flask Response in MetricsResource.on_get.
MetricsFaults ==
    {"none", "psutil", "cpu_percent", "num_fds", "application", "generate_latest",
     "decode"}

\* The process gauges of the registry, each holding the time of the reading
\* that set it; the module sets them once when it is imported (time 0).
ImportGauges == [g \in {"memory", "cpu", "uptime", "open_files"} |-> 0]

\* _update_system_metrics at time `now`: the gauges are set one after the
\* other, memory, cpu, uptime, open files. psutil.Process() or memory_info()
\* raising leaves them all, cpu_percent() raising leaves all but memory,
\* num_fds missing or raising leaves open_files; the exception is swallowed.
_update_system_metrics(gauges, now, fault) ==
    CASE fault = "psutil" -> gauges
      [] fault = "cpu_percent" -> [gauges EXCEPT !["memory"] = now]
      [] fault = "num_fds" ->
            [gauges EXCEPT !["memory"] = now, !["cpu"] = now, !["uptime"] = now]
      [] OTHER -> [g \in DOMAIN gauges |-> now]

\* the gauge samples of an exposition of the registry
Samples(gauges) == {<<g, gauges[g]>> : g \in DOMAIN gauges}

\* a render that serializes the registry before it updates the gauges
prometheus_metrics_serialize_first(gauges, now, fault) ==
    IF fault = "generate_latest"
    THEN [data |-> "# Error generating metrics\n", samples |-> {},
          gauges |-> _update_system_metrics(gauges, now, fault)]
    ELSE [data |-> "exposition of the registry", samples |-> Samples(gauges),
          gauges |-> _update_system_metrics(gauges, now, fault)]

\* prometheus_metrics: the two update functions swallow their own
\* exceptions, then generate_latest serializes the registry; a failing
\* generate_latest gives the comment line.
prometheus_metrics(gauges, now, fault) ==
    LET updated == _update_system_metrics(gauges, now, fault)
    IN IF fault = "generate_latest"
       THEN [data |-> "# Error generating metrics\n", samples |-> {},
             gauges |-> updated]
       ELSE [data |-> "exposition of the registry", samples |-> Samples(updated),
             gauges |-> updated]

\* health_metrics: the pair (body, code); the body is given by its keys and
\* the value of its 'status' key
HealthOutcomes == {"healthy", "unhealthy", "raises"}

health_metrics(outcome) ==
    IF outcome = "healthy"
    THEN [media |-> [status |-> "healthy",
                     keys |-> {"status", "timestamp", "uptime_seconds",
                               "memory_usage_mb", "cpu_percent", "open_files",
                               "metrics_endpoint"}],
          code |-> 200]
    ELSE [media |-> [status |-> "unhealthy",
                     keys |-> {"status", "timestamp", "error"}],
          code |-> 500]

----------------------------------------------------------------------------
(* The request, the response and the span as the middleware sees them *)

\* an extract that ignores the headers
extract_no_headers(traceparent) == "empty"

\* propagate.extract(req.headers): the remote context when the request
\* carries trace-context headers, else an empty context.
extract(traceparent) == IF traceparent THEN "remote" ELSE "empty"

\* contextvars token: attach remembers the context it replaced.
NoToken == [set |-> FALSE, prev |-> "empty"]
Token(prev) == [set |-> TRUE, prev |-> prev]

\* resp.text as _estimate_results_count reads it: whether it is a non-empty
\* string, whether it contains the substring 'features', what json.loads
\* makes of it, and the length of data['features'].
Body(text, mentions, json, has_key, len) ==
    [text |-> text, mentions |-> mentions, json |-> json, has_key |-> has_key, len |-> len]
NoBody == Body(FALSE, FALSE, "invalid", FALSE, 0)
FeatureCollection(n) == Body(TRUE, TRUE, "dict", TRUE, n)

\* the q parameter: req.get_param('q', '') passes '' as `required`, so an
\* absent parameter yields None.
NoQuery == [present |-> FALSE, val |-> <<>>]
Query(s) == [present |-> TRUE, val |-> s]

\* tracer.start_span(name, kind=SERVER): parent is the ambient context
NewSpan(id, name, parent) ==
    [id |-> id, name |-> name, kind |-> "SERVER", parent |-> parent,
     state |-> "ACTIVE", status |-> "unset", code |-> -1, resource |-> "",
     attributes |-> FALSE, ends |-> 0, late |-> 0]

\* span.set_attribute / set_attributes / set_status: a write on an ended
\* span is dropped by the SDK; late counts such writes.
span_write(sp, key, val) ==
    IF sp.state = "ENDED" THEN [sp EXCEPT !.late = @ + 1]
    ELSE [sp EXCEPT ![key] = val]

\* span.end() followed by the status-code attribute write
span_end_then_write(sp) ==
    span_write([sp EXCEPT !.state = "ENDED", !.ends = @ + 1], "code", sp.code)

\* span.end()
span_end(sp) == [sp EXCEPT !.state = "ENDED", !.ends = @ + 1]

IdleRequest ==
    [phase |-> "idle", serial |-> 0, middleware |-> "none",
     method |-> <<>>, path |-> <<>>, traceparent |-> FALSE, q |-> NoQuery,
     start_time |-> -1, has_slots |-> FALSE, otel_span |-> 0, otel_token |-> NoToken,
     started |-> 0, attached |-> FALSE, detached |-> FALSE,
     resource |-> "None", status |-> <<>>, body |-> NoBody, succeeded |-> FALSE,
     handler_status |-> <<>>, handler_body |-> NoBody,
     duration |-> -1, recorded |-> <<>>, flushed |-> <<>>, flush_failed |-> FALSE,
     escaped |-> FALSE]

----------------------------------------------------------------------------
(* falcon_middleware.py: helpers of OpenTelemetryMiddleware *)

\* the operation name by exact path match in place of prefix match
_get_operation_name_exact(method, path) ==
    IF path = P_search THEN OP_geocode_search
    ELSE IF path = P_reverse THEN OP_geocode_reverse
    ELSE IF path = P_health THEN OP_health_check
    ELSE IF path = P_metrics THEN OP_metrics
    ELSE method \o <<" ">> \o path

\* _get_operation_name
_get_operation_name(method, path) ==
    IF StartsWith(path, P_search) THEN OP_geocode_search
    ELSE IF StartsWith(path, P_reverse) THEN OP_geocode_reverse
    ELSE IF StartsWith(path, P_health) THEN OP_health_check
    ELSE IF StartsWith(path, P_metrics) THEN OP_metrics
    ELSE method \o <<" ">> \o path

\* a request header or attribute that may be absent (None)
Absent == [present |-> FALSE, val |-> <<>>]
Given(s) == [present |-> TRUE, val |-> s]

\* truthiness of an optional string
Truthy(h) == h.present /\ h.val # <<>>

\* limit = req.get_param_as_int('limit') or 5, 5 when that raises:
\* get_param_as_int gives None for an absent parameter and raises
\* HTTPInvalidParam when int() of the value fails.
addok_limit(param) ==
    LET get_param_as_int == IF param.present THEN PyInt(param.val)
                            ELSE [raised |-> FALSE, val |-> 0]
    IN IF get_param_as_int.raised THEN 5
       ELSE IF get_param_as_int.val # 0 THEN get_param_as_int.val
       ELSE 5

\* the strings get_param_as_bool reads as true and as false
TRUE_STRINGS == {<<"t", "r", "u", "e">>, <<"T", "r", "u", "e">>, <<"t">>, <<"y", "e", "s">>, <<"y">>,
                 <<"1">>, <<"o", "n">>}
FALSE_STRINGS == {<<"f", "a", "l", "s", "e">>, <<"F", "a", "l", "s", "e">>, <<"f">>, <<"n", "o">>, <<"n">>,
                  <<"0">>, <<"o", "f", "f">>}

\* autocomplete = req.get_param_as_bool('autocomplete'), True when that is
\* None (parameter absent) or raises (value in neither list)
addok_autocomplete(param) ==
    IF ~param.present THEN TRUE
    ELSE IF param.val \in TRUE_STRINGS THEN TRUE
    ELSE IF param.val \in FALSE_STRINGS THEN FALSE
    ELSE TRUE

\* str.split(',')[0]
RECURSIVE BeforeComma(_)
BeforeComma(s) ==
    IF s = <<>> \/ Head(s) = "," THEN <<>>
    ELSE <<Head(s)>> \o BeforeComma(Tail(s))

\* client-IP resolution with X-Real-IP taking precedence
_get_client_ip_real_first(forwarded, real_ip, remote_addr) ==
    IF Truthy(real_ip) THEN real_ip.val
    ELSE IF Truthy(forwarded) THEN Strip(BeforeComma(forwarded.val))
    ELSE IF Truthy(remote_addr) THEN remote_addr.val
    ELSE S_unknown

\* _get_client_ip
_get_client_ip(forwarded, real_ip, remote_addr) ==
    IF Truthy(forwarded) THEN Strip(BeforeComma(forwarded.val))
    ELSE IF Truthy(real_ip) THEN real_ip.val
    ELSE IF Truthy(remote_addr) THEN remote_addr.val
    ELSE S_unknown

\* the query attribute without the slice
addok_query_whole(q) == IF Truthy(q) THEN q.val ELSE <<>>

\* "addok.query": req.get_param('q', '')[:100] if req.get_param('q') else ""
addok_query(q) == IF Truthy(q) THEN Take(q.val, 100) ELSE <<>>

\* int(resp.status[:3]) if resp.status else 500
StatusCode(status) ==
    IF status # <<>> THEN PyInt(Take(status, 3)) ELSE [raised |-> FALSE, val |-> 500]

\* the estimate without the substring test on resp.text
_estimate_results_count_parse_only(status, body) ==
    IF body.text /\ body.json = "dict" /\ body.has_key /\ body.len >= 0
    THEN body.len
    ELSE IF status # <<>> /\ StartsWith(status, S_200) THEN 1 ELSE 0

\* _estimate_results_count: len() of a value without a length raises
\* TypeError, which the inner except passes on to the status-line estimate
_estimate_results_count(status, body) ==
    IF /\ body.text /\ body.mentions
       /\ body.json = "dict" /\ body.has_key /\ body.len >= 0
    THEN body.len
    ELSE IF status # <<>> /\ StartsWith(status, S_200) THEN 1 ELSE 0

\* the classification with results_count >= 0 in place of > 0
GeocodingStatus_ge(req_succeeded, results_count) ==
    IF req_succeeded /\ results_count >= 0 THEN S_success
    ELSE IF req_succeeded THEN S_no_results
    ELSE S_error

\* status = 'success' if req_succeeded and results_count > 0
\*          else 'no_results' if req_succeeded else 'error'
GeocodingStatus(req_succeeded, results_count) ==
    IF req_succeeded /\ results_count > 0 THEN S_success
    ELSE IF req_succeeded THEN S_no_results
    ELSE S_error

\* The try block of _record_http_metrics: int() of a non-numeric status
\* line raises ValueError before anything is recorded.
_record_http_metrics_try(r, duration) ==
    LET sc == StatusCode(r.status)
        endpoint == _get_operation_name(r.method, r.path)
    IN IF sc.raised THEN [raised |-> TRUE, events |-> <<>>]
       ELSE [raised |-> FALSE,
             events |-> record_http_request(r.method, endpoint, sc.val, duration)]

\* _record_http_metrics: the try block and its except clause
_record_http_metrics(r, duration) ==
    [_record_http_metrics_try(r, duration) EXCEPT !.raised = FALSE]

\* The try block of _record_geocoding_metrics: for Search, len(query) raises
\* TypeError on an absent q, after the Prometheus counter was incremented.
_record_geocoding_metrics_try(r, tel, duration) ==
    LET results_count == _estimate_results_count(r.status, r.body)
        status == GeocodingStatus(r.succeeded, results_count)
    IN CASE r.resource = "Search" ->
              IF r.q.present
              THEN [raised |-> FALSE,
                    events |-> record_geocoding_operation(S_search, status, duration)
                               \o telemetry_record_geocoding_request(
                                      tel, S_search, status, duration,
                                      Len(r.q.val), results_count)]
              ELSE [raised |-> TRUE,
                    events |-> record_geocoding_operation(S_search, status, duration)]
         [] r.resource = "Reverse" ->
              [raised |-> FALSE,
               events |-> record_geocoding_operation(S_reverse, status, duration)
                          \o telemetry_record_geocoding_request(
                                 tel, S_reverse, status, duration, 0, results_count)]
         [] OTHER -> [raised |-> FALSE, events |-> <<>>]

\* _record_geocoding_metrics: the try block and its except clause
_record_geocoding_metrics(r, tel, duration) ==
    [_record_geocoding_metrics_try(r, tel, duration) EXCEPT !.raised = FALSE]

\* Status(StatusCode.OK) when req_succeeded and 200 <= status_code < 400
SpanStatusFor(req_succeeded, status_code) ==
    IF req_succeeded /\ 200 <= status_code /\ status_code < 400 THEN "ok" ELSE "error"

\* The calls of _complete_span that may raise.
CompleteFaults == {"none", "set_attribute", "set_status", "end", "detach", "force_flush"}

\* The try block of _complete_span.  sps is the span store, amb the thread's
\* ambient context, fault the call that raises.  An exception leaves what
\* was done before it; force_flush has a try/except of its own and is called
\* on telemetry.tracer_provider.
_complete_span_try(r, sps, amb, tel, fault) ==
    LET same == [raised |-> FALSE, spans |-> sps, ambient |-> amb, events |-> <<>>,
                 detached |-> FALSE, flushed |-> <<>>, flush_failed |-> FALSE]
        sc == StatusCode(r.status)
        id == r.otel_span
    IN IF id = 0 THEN same
       ELSE IF sc.raised \/ fault = "set_attribute" THEN [same EXCEPT !.raised = TRUE]
       ELSE
         LET s1 == span_write(sps[id], "code", sc.val)
             status == SpanStatusFor(r.succeeded, sc.val)
             s2 == span_write(s1, "status", status)
             error_type == S_HTTP_ \o IntToStr(sc.val)
             endpoint == _get_operation_name(r.method, r.path)
             events == IF status = "ok" THEN <<>>
                       ELSE record_error(error_type)
                            \o telemetry_record_error(tel, error_type, endpoint)
             s3 == span_end(s2)
         IN IF fault = "set_status"
            THEN [same EXCEPT !.raised = TRUE, !.spans = [sps EXCEPT ![id] = s1]]
            ELSE IF fault = "end"
            THEN [same EXCEPT !.raised = TRUE, !.spans = [sps EXCEPT ![id] = s2],
                              !.events = events]
            ELSE IF r.otel_token.set /\ fault = "detach"
            THEN [same EXCEPT !.raised = TRUE, !.spans = [sps EXCEPT ![id] = s3],
                              !.events = events]
            ELSE [raised |-> FALSE,
                  spans |-> [sps EXCEPT ![id] = s3],
                  ambient |-> IF r.otel_token.set THEN r.otel_token.prev ELSE amb,
                  events |-> events,
                  detached |-> r.otel_token.set,
                  flushed |-> IF tel.tracer_provider # 0
                              THEN <<[provider |-> tel.tracer_provider,
                                      timeout_millis |-> 1000]>>
                              ELSE <<>>,
                  flush_failed |-> tel.tracer_provider # 0 /\ fault = "force_flush"]

\* a _complete_span that detaches the context before it ends the span
_complete_span_detach_first(r, sps, amb, tel, fault) ==
    LET c == _complete_span_try(r, sps, amb, tel, fault)
    IN IF fault = "end" /\ r.otel_span # 0 /\ ~StatusCode(r.status).raised
       THEN [c EXCEPT !.raised = FALSE,
                      !.detached = r.otel_token.set,
                      !.ambient = IF r.otel_token.set THEN r.otel_token.prev ELSE amb]
       ELSE [c EXCEPT !.raised = FALSE]

\* _complete_span: the try block and its except clause
_complete_span(r, sps, amb, tel, fault) ==
    [_complete_span_try(r, sps, amb, tel, fault) EXCEPT !.raised = FALSE]

\* time.time() - getattr(req, 'start_time', time.time())
Elapsed(r, now) == now - (IF r.start_time >= 0 THEN r.start_time ELSE now)

\* The try block of OpenTelemetryMiddleware.process_response: the request
\* and response as the hook leaves them, the span store, the thread's
\* ambient context and the gauge.
process_response_try(r, sps, amb, tel, g, now, fault) ==
    LET duration == Elapsed(r, now)
        h == _record_http_metrics(r, duration)
        geo == _record_geocoding_metrics(r, tel, duration)
        c == _complete_span(r, sps, amb, tel, fault)
    IN [raised |-> h.raised \/ geo.raised \/ c.raised,
        request |-> [r EXCEPT !.phase = "done", !.duration = duration,
                              !.recorded = h.events \o geo.events \o c.events,
                              !.detached = c.detached, !.flushed = c.flushed,
                              !.flush_failed = c.flush_failed],
        spans |-> c.spans,
        ambient |-> c.ambient,
        gauge |-> increment_active_requests(tel, g, -1)]

\* process_response with an except clause that turns the response into a 500
process_response_otel_sets_500(r, sps, amb, tel, g, now, fault) ==
    [process_response_try([r EXCEPT !.status = HTTP_500], sps, amb, tel, g, now, fault)
       EXCEPT !.raised = FALSE]

\* OpenTelemetryMiddleware.process_response: the try block and its except
\* clause
process_response_otel(r, sps, amb, tel, g, now, fault) ==
    [process_response_try(r, sps, amb, tel, g, now, fault) EXCEPT !.raised = FALSE]

\* The calls of process_request that may raise.
RequestFaults == {"none", "extract", "attach", "start_span", "set_attributes"}

\* The try block of OpenTelemetryMiddleware.process_request, up to the call
\* that raises.  tracer is self.tracer after the refresh, id the identity of
\* the span object start_span would create.
process_request_try(tracer, sps, amb, id, method, path, traceparent, fault) ==
    LET none == [raised |-> FALSE, spans |-> sps, ambient |-> amb, otel_span |-> 0,
                 otel_token |-> NoToken, started |-> 0, attached |-> FALSE]
        ctx == extract(traceparent)
        token == Token(amb)
        span == NewSpan(id, _get_operation_name(method, path), ctx)
        sps1 == (id :> span) @@ sps
    IN IF tracer = 0 THEN none
       ELSE IF fault \in {"extract", "attach"} THEN [none EXCEPT !.raised = TRUE]
       ELSE IF fault = "start_span"
       THEN [none EXCEPT !.raised = TRUE, !.ambient = ctx, !.attached = TRUE]
       ELSE IF fault = "set_attributes"
       THEN [none EXCEPT !.raised = TRUE, !.ambient = ctx, !.attached = TRUE,
                         !.spans = sps1, !.started = id]
       ELSE [raised |-> FALSE,
             spans |-> [sps1 EXCEPT ![id] = span_write(span, "attributes", TRUE)],
             ambient |-> ctx, otel_span |-> id, otel_token |-> token,
             started |-> id, attached |-> TRUE]

\* process_request with an except clause that clears the slots and re-raises
process_request_otel_reraises(tracer, sps, amb, id, method, path, traceparent, fault) ==
    LET b == process_request_try(tracer, sps, amb, id, method, path, traceparent, fault)
    IN IF b.raised THEN [b EXCEPT !.otel_span = 0, !.otel_token = NoToken] ELSE b

\* a process_request whose except clause keeps the span it had started
process_request_otel_keeps_span(tracer, sps, amb, id, method, path, traceparent, fault) ==
    LET b == process_request_try(tracer, sps, amb, id, method, path, traceparent, fault)
    IN IF b.raised
       THEN [b EXCEPT !.raised = FALSE, !.otel_span = b.started, !.otel_token = NoToken]
       ELSE b

\* OpenTelemetryMiddleware.process_request: the try block, and the except
\* clause that clears both slots of req.context
process_request_otel(tracer, sps, amb, id, method, path, traceparent, fault) ==
    LET b == process_request_try(tracer, sps, amb, id, method, path, traceparent, fault)
    IN IF b.raised
       THEN [b EXCEPT !.raised = FALSE, !.otel_span = 0, !.otel_token = NoToken]
       ELSE b

\* The try block of OpenTelemetryMiddleware.process_resource; fault: the
\* set_attribute call raises
process_resource_try(r, sps, fault) ==
    IF r.otel_span = 0 THEN [raised |-> FALSE, spans |-> sps]
    ELSE IF fault THEN [raised |-> TRUE, spans |-> sps]
    ELSE [raised |-> FALSE,
          spans |-> [sps EXCEPT ![r.otel_span] = span_write(@, "resource", r.resource)]]

\* a process_resource that also sets the span status
process_resource_otel_sets_status(r, sps, fault) ==
    LET p == process_resource_try(r, sps, fault)
    IN [raised |-> FALSE,
        spans |-> IF r.otel_span = 0 THEN p.spans
                  ELSE [p.spans EXCEPT ![r.otel_span] = span_write(@, "status", "ok")]]

\* OpenTelemetryMiddleware.process_resource: the try block and its except
\* clause
process_resource_otel(r, sps, fault) ==
    [process_resource_try(r, sps, fault) EXCEPT !.raised = FALSE]

\* str.split('?')[0]
RECURSIVE BeforeQuestionMark(_)
BeforeQuestionMark(s) ==
    IF s = <<>> \/ Head(s) = "?" THEN <<>>
    ELSE <<Head(s)>> \o BeforeQuestionMark(Tail(s))

\* The try block of MetricsMiddleware.process_response: int() of the status
\* line raises after the gauge was decremented.
process_response_metrics_try(r, tel, g, now) ==
    LET duration == Elapsed(r, now)
        sc == StatusCode(r.status)
        endpoint == IF r.path # <<>> THEN BeforeQuestionMark(r.path) ELSE S_unknown
    IN [raised |-> sc.raised,
        request |-> [r EXCEPT !.phase = "done", !.duration = duration,
                              !.recorded = IF sc.raised THEN <<>>
                                           ELSE record_http_request(
                                                    r.method, endpoint, sc.val, duration)],
        gauge |-> increment_active_requests(tel, g, -1)]

\* MetricsMiddleware.process_response: the try block and its except clause
process_response_metrics(r, tel, g, now) ==
    [process_response_metrics_try(r, tel, g, now) EXCEPT !.raised = FALSE]

\* a factory that always builds the metrics-only middleware
create_telemetry_middleware_metrics_only(tel) == [kind |-> "metrics", tracer |-> 0]

\* create_telemetry_middleware
create_telemetry_middleware(tel) ==
    IF tel.tracer # 0 THEN [kind |-> "otel", tracer |-> 0]
    ELSE [kind |-> "metrics", tracer |-> 0]

----------------------------------------------------------------------------
(* Inputs *)

Methods == {S_GET}
Paths == {P_search, P_reverse, P_health_metrics, P_other}

\* The q parameter is read for Search requests only.
QueriesOf(path) ==
    IF path = P_search THEN {NoQuery, Query(<<"r", "u", "e">>)} ELSE {NoQuery}

\* The route table: addok registers Search and Reverse (register_http_endpoint),
\* add_metrics_endpoint adds /health/metrics; any other path has no route.
RouteOf(path) ==
    IF path = P_search THEN "Search"
    ELSE IF path = P_reverse THEN "Reverse"
    ELSE IF path = P_health_metrics THEN "HealthMetricsResource"
    ELSE "None"

\* What the opaque geocoding handlers may leave in the response: a status
\* line (or none), a body, and whether Falcon reports success.
HandlerOutcomes ==
    [status : {HTTP_200}, body : {NoBody, FeatureCollection(0), FeatureCollection(3)},
     succeeded : BOOLEAN]
    \cup [status : {HTTP_404, <<>>}, body : {NoBody}, succeeded : BOOLEAN]

\* sync workers run one request at a time on one thread
ServingThreads == IF worker_class = "sync" THEN {1} ELSE Threads

\* A helper function called on its own.
Call(fn, args, result) == [fn |-> fn, args |-> args, result |-> result]
NoCall == Call("none", <<>>, <<>>)

----------------------------------------------------------------------------
(* Worker start-up *)

Init ==
    /\ pc \in {"post_fork", "create_application"}
    /\ worker_class = "sync"
    /\ telemetry = NewTelemetry
    /\ globalTP = 0
    /\ middleware = [kind |-> "none", tracer |-> 0]
    /\ clock = 0
    /\ served = 0
    /\ req = [t \in Threads |-> IdleRequest]
    /\ spans = <<>>
    /\ ambient = [t \in Threads |-> "empty"]
    /\ gauge = [incs |-> 0, decs |-> 0]
    /\ spanStats = [started |-> 0, ended |-> 0]
    /\ injected = FALSE
    /\ call = NoCall

\* gunicorn.conf.py post_fork: initialize_telemetry() in the forked worker
post_fork ==
    /\ pc = "post_fork"
    /\ \E env \in Environments, tracing \in TracingOutcomes,
          metrics \in MetricsOutcomes, datadog \in DatadogOutcomes :
         LET i == initialize_all(telemetry, globalTP, env, tracing, metrics, datadog)
         IN /\ telemetry' = i.tel
            /\ globalTP' = i.gtp
    /\ pc' = "create_application"
    /\ UNCHANGED <<worker_class, middleware, clock, served, req, spans, ambient,
                   gauge, spanStats, injected, call>>

\* wsgi_otel.py create_application: initialize_telemetry() again, then the
\* middleware is chosen and the application serves
create_application ==
    /\ pc = "create_application"
    /\ \E env \in Environments, tracing \in TracingOutcomes,
          metrics \in MetricsOutcomes, datadog \in DatadogOutcomes :
         LET i == initialize_all(telemetry, globalTP, env, tracing, metrics, datadog)
         IN /\ telemetry' = i.tel
            /\ globalTP' = i.gtp
            /\ middleware' = create_telemetry_middleware(i.tel)
    /\ pc' = "serving"
    /\ UNCHANGED <<worker_class, clock, served, req, spans, ambient, gauge, spanStats, injected, call>>

----------------------------------------------------------------------------
(* One request: Falcon calls process_request, routes, calls process_resource, *)
(* runs the responder, and calls process_response                           *)

\* A thread takes a new request when it has none.
CanAccept(t) ==
    /\ pc = "serving"
    /\ t \in ServingThreads
    /\ req[t].phase = "idle"
    /\ served < MaxRequests

\* The span objects still referenced once thread t drops its request.
LiveSpans(t) ==
    LET dead == {req[t].started, req[t].otel_span}
    IN [i \in (DOMAIN spans) \ dead |-> spans[i]]

\* The request object Falcon builds, with a response that starts as 200 OK.
NewRequest(id, kind, method, path, q, traceparent) ==
    [IdleRequest EXCEPT !.phase = "requested", !.serial = id, !.middleware = kind,
                        !.method = method, !.path = path, !.q = q,
                        !.traceparent = traceparent,
                        !.status = HTTP_200, !.handler_status = HTTP_200]

\* OpenTelemetryMiddleware.process_request
OtelProcessRequest(t) ==
    /\ CanAccept(t)
    /\ middleware.kind = "otel"
    /\ \E method \in Methods, path \in Paths, traceparent \in BOOLEAN,
          fault \in RequestFaults :
       \E q \in QueriesOf(path) :
         LET current_tracer == get_tracer(telemetry)
             tracer == IF current_tracer # 0 THEN current_tracer ELSE middleware.tracer
             id == served + 1
             b == process_request_otel(tracer, spans, ambient[t], id,
                                       method, path, traceparent, fault)
         IN /\ middleware' = [middleware EXCEPT !.tracer = tracer]
            /\ gauge' = increment_active_requests(telemetry, gauge, 1)
            /\ spans' = b.spans
            /\ ambient' = [ambient EXCEPT ![t] = b.ambient]
            /\ spanStats' = [spanStats EXCEPT
                               !.started = IF b.started # 0 THEN @ + 1 ELSE @]
            /\ req' = [req EXCEPT ![t] =
                 [NewRequest(id, "otel", method, path, q, traceparent) EXCEPT
                    !.start_time = clock, !.has_slots = TRUE,
                    !.otel_span = b.otel_span, !.otel_token = b.otel_token,
                    !.started = b.started, !.attached = b.attached,
                    !.escaped = b.raised]]
            /\ injected' = (injected \/ fault # "none")
    /\ served' = served + 1
    /\ UNCHANGED <<pc, worker_class, telemetry, globalTP, clock, call>>

\* MetricsMiddleware.process_request
MetricsProcessRequest(t) ==
    /\ CanAccept(t)
    /\ middleware.kind = "metrics"
    /\ \E method \in Methods, path \in Paths, traceparent \in BOOLEAN :
       \E q \in QueriesOf(path) :
         req' = [req EXCEPT ![t] =
                   [NewRequest(served + 1, "metrics", method, path, q, traceparent)
                      EXCEPT !.start_time = clock]]
    /\ gauge' = increment_active_requests(telemetry, gauge, 1)
    /\ served' = served + 1
    /\ UNCHANGED <<pc, worker_class, telemetry, globalTP, middleware, clock,
                   spans, ambient, spanStats, injected, call>>

\* OpenTelemetryMiddleware.process_resource, called once the route is found
OtelProcessResource(t) ==
    /\ middleware.kind = "otel"
    /\ req[t].phase = "requested"
    /\ RouteOf(req[t].path) # "None"
    /\ \E fault \in BOOLEAN :
         LET r == [req[t] EXCEPT !.resource = RouteOf(req[t].path)]
             p == process_resource_otel(r, spans, fault)
         IN /\ spans' = p.spans
            /\ req' = [req EXCEPT ![t] =
                         [r EXCEPT !.phase = "routed", !.escaped = @ \/ p.raised]]
            /\ injected' = (injected \/ process_resource_try(r, spans, fault).raised)
    /\ UNCHANGED <<pc, worker_class, telemetry, globalTP, middleware, clock, served,
                   ambient, gauge, spanStats, call>>

\* The responder of `resource` is about to run for thread t.
AtResponder(t, resources) ==
    /\ pc = "serving"
    /\ RouteOf(req[t].path) \in resources
    /\ req[t].phase = IF middleware.kind = "otel" /\ RouteOf(req[t].path) # "None"
                      THEN "routed" ELSE "requested"

\* The responder has run: what it left in the response.
Responded(t, status, body, succeeded) ==
    /\ req' = [req EXCEPT ![t] =
                 [@ EXCEPT !.phase = "handled", !.resource = RouteOf(req[t].path),
                           !.status = status, !.body = body, !.succeeded = succeeded,
                           !.handler_status = status, !.handler_body = body]]
    /\ clock' = clock + 1
    /\ UNCHANGED <<pc, worker_class, telemetry, globalTP, middleware, served, spans,
                   ambient, gauge, spanStats, injected, call>>

\* The opaque Search / Reverse responders
GeocodingHandler(t) ==
    /\ AtResponder(t, {"Search", "Reverse"})
    /\ \E o \in HandlerOutcomes : Responded(t, o.status, o.body, o.succeeded)

\* wsgi_otel.py HealthMetricsResource.on_get: resp.status is "HTTP_<code>" of
\* health_metrics(), or falcon.HTTP_500 when the call itself raises
HealthMetricsResource_on_get(outcome) ==
    LET health_response == health_metrics(outcome)
    IN IF outcome = "raises"
       THEN [status |-> HTTP_500,
             media |-> [status |-> "absent", keys |-> {"error"}]]
       ELSE [status |-> HealthStatusLine(health_response.code),
             media |-> health_response.media]

\* GET /health/metrics; resp.media leaves resp.text unset
HealthMetricsOnGet(t) ==
    /\ AtResponder(t, {"HealthMetricsResource"})
    /\ \E outcome \in HealthOutcomes :
         Responded(t, HealthMetricsResource_on_get(outcome).status, NoBody, TRUE)

\* No route: Falcon's default responder raises HTTPRouteNotFound
NotFound(t) ==
    /\ AtResponder(t, {"None"})
    /\ Responded(t, HTTP_404, NoBody, FALSE)

\* Falcon calls OpenTelemetryMiddleware.process_response
OtelProcessResponse(t) ==
    /\ middleware.kind = "otel"
    /\ req[t].phase = "handled"
    /\ \E fault \in CompleteFaults :
         LET p == process_response_otel(req[t], spans, ambient[t], telemetry, gauge,
                                        clock, fault)
             id == req[t].otel_span
             ended == id # 0 /\ p.spans[id].ends > spans[id].ends
         IN /\ gauge' = p.gauge
            /\ spans' = p.spans
            /\ ambient' = [ambient EXCEPT ![t] = p.ambient]
            /\ spanStats' = [spanStats EXCEPT !.ended = IF ended THEN @ + 1 ELSE @]
            /\ req' = [req EXCEPT ![t] =
                         [p.request EXCEPT !.escaped = @ \/ p.raised]]
            /\ injected' = (injected \/ p # process_response_otel(
                                 req[t], spans, ambient[t], telemetry, gauge, clock, "none"))
    /\ UNCHANGED <<pc, worker_class, telemetry, globalTP, middleware, clock, served,
                   call>>

\* Falcon calls MetricsMiddleware.process_response
MetricsProcessResponse(t) ==
    /\ middleware.kind = "metrics"
    /\ req[t].phase = "handled"
    /\ LET p == process_response_metrics(req[t], telemetry, gauge, clock)
       IN /\ gauge' = p.gauge
          /\ req' = [req EXCEPT ![t] = [p.request EXCEPT !.escaped = @ \/ p.raised]]
    /\ UNCHANGED <<pc, worker_class, telemetry, globalTP, middleware, clock, served,
                   spans, ambient, spanStats, injected, call>>

\* The response is sent: the request, its context and its span are dropped.
FinishRequest(t) ==
    /\ req[t].phase = "done"
    /\ req' = [req EXCEPT ![t] = IdleRequest]
    /\ spans' = LiveSpans(t)
    /\ UNCHANGED <<pc, worker_class, telemetry, globalTP, middleware, clock, served,
                   ambient, gauge, spanStats, injected, call>>

\* The process ends once its requests are served.  Under gunicorn the
\* worker_exit hook runs; then the interpreter runs the atexit hooks, among
\* them _cleanup_telemetry, which initialize_tracing registers just after it
\* has set self.tracer.
Shutdown ==
    /\ pc = "serving"
    /\ \A t \in Threads : req[t].phase = "idle"
    /\ \E gunicorn \in BOOLEAN, fault \in BOOLEAN :
         LET hook == worker_exit(telemetry, fault)
             atexit == _cleanup_telemetry(telemetry, fault)
         IN call' = Call("shutdown", [gunicorn |-> gunicorn, fault |-> fault],
                         [flushes |-> (IF gunicorn THEN hook.flushes ELSE <<>>)
                                      \o (IF telemetry.tracer # 0 THEN atexit.flushes
                                          ELSE <<>>),
                          raised |-> (gunicorn /\ hook.raised)
                                     \/ (telemetry.tracer # 0 /\ atexit.raised)])
    /\ pc' = "exited"
    /\ UNCHANGED <<worker_class, telemetry, globalTP, middleware, clock, served,
                   req, spans, ambient, gauge, spanStats, injected>>

Next ==
    \/ post_fork
    \/ create_application
    \/ Shutdown
    \/ \E t \in Threads :
         \/ OtelProcessRequest(t)
         \/ MetricsProcessRequest(t)
         \/ OtelProcessResource(t)
         \/ GeocodingHandler(t)
         \/ HealthMetricsOnGet(t)
         \/ NotFound(t)
         \/ OtelProcessResponse(t)
         \/ MetricsProcessResponse(t)
         \/ FinishRequest(t)

Spec == Init /\ [][Next]_vars

----------------------------------------------------------------------------
(* The application under a threaded WSGI server: the hooks of two requests *)
(* interleave on the two threads of one worker                            *)

\* the worker after a successful start-up, serving on threads
InitThreads ==
    /\ pc = "serving"
    /\ worker_class = "gthread"
    /\ \E i \in {initialize_all(NewTelemetry, 0, env, "ok", "ok", "ok") :
                    env \in Environments} :
         /\ telemetry = i.tel
         /\ globalTP = i.gtp
         /\ middleware = create_telemetry_middleware(i.tel)
    /\ clock = 0
    /\ served = 0
    /\ req = [t \in Threads |-> IdleRequest]
    /\ spans = <<>>
    /\ ambient = [t \in Threads |-> "empty"]
    /\ gauge = [incs |-> 0, decs |-> 0]
    /\ spanStats = [started |-> 0, ended |-> 0]
    /\ injected = FALSE
    /\ call = NoCall

\* the requests sent to the threaded worker
ThreadPaths == {P_search, P_health_metrics, P_other}

\* the hooks and responders of the tracing middleware, no tracing API call
\* being made to raise
NextThreads ==
    /\ \E t \in Threads :
         \/ OtelProcessRequest(t)
         \/ OtelProcessResource(t)
         \/ GeocodingHandler(t)
         \/ HealthMetricsOnGet(t)
         \/ NotFound(t)
         \/ OtelProcessResponse(t)
         \/ FinishRequest(t)
    /\ ~injected'
    /\ \A t \in Threads : req'[t].phase # "idle" =>
                              req'[t].path \in ThreadPaths /\ req'[t].traceparent

SpecThreads == InitThreads /\ [][NextThreads]_vars

----------------------------------------------------------------------------
(* The helper functions called on their own, each on inputs of its domain *)

\* the state every helper call leaves alone
worker == <<pc, worker_class, telemetry, globalTP, middleware, clock, served,
            req, spans, ambient, gauge, spanStats, injected>>

InitHelpers ==
    /\ pc = "helpers"
    /\ worker_class = "sync"
    /\ telemetry = NewTelemetry
    /\ globalTP = 0
    /\ middleware = [kind |-> "none", tracer |-> 0]
    /\ clock = 0
    /\ served = 0
    /\ req = [t \in Threads |-> IdleRequest]
    /\ spans = <<>>
    /\ ambient = [t \in Threads |-> "empty"]
    /\ gauge = [incs |-> 0, decs |-> 0]
    /\ spanStats = [started |-> 0, ended |-> 0]
    /\ injected = FALSE
    /\ call = NoCall

\* wsgi_otel.py MetricsResource.on_get
MetricsResource_on_get(gauges, now, fault) ==
    LET metrics_response == prometheus_metrics(gauges, now, fault)
    IN IF fault = "decode"
       THEN [status |-> HTTP_500, text |-> "# Error generating metrics\n",
             samples |-> {}, gauges |-> metrics_response.gauges]
       ELSE [status |-> HTTP_200, text |-> metrics_response.data,
             samples |-> metrics_response.samples,
             gauges |-> metrics_response.gauges]

\* the names bound at the top level of metrics_endpoint.py
metrics_endpoint_names ==
    {"os", "sys", "psutil", "logging", "Blueprint", "Response", "generate_latest",
     "CollectorRegistry", "CONTENT_TYPE_LATEST", "Counter", "Histogram", "Gauge",
     "Info", "Enum", "datetime", "logger", "metrics_bp", "registry", "app_info",
     "memory_usage", "cpu_usage", "open_files", "uptime_seconds", "health_status",
     "request_counter", "request_duration", "geocoding_counter", "cache_operations",
     "redis_connections", "sqlite_operations", "csv_processing_counter",
     "csv_rows_gauge", "error_counter", "response_time_summary", "startup_time",
     "prometheus_metrics", "health_metrics", "_update_system_metrics",
     "_update_application_metrics", "record_http_request",
     "record_geocoding_operation", "record_cache_operation",
     "record_csv_processing", "record_error", "record_sqlite_operation"}

\* `from .metrics_endpoint import (...)` at the top of falcon_middleware.py:
\* ImportError unless metrics_endpoint.py binds every imported name
falcon_middleware_import_raises ==
    ~({"record_http_request", "record_geocoding_operation", "record_error",
       "MetricsResource", "HealthMetricsResource"} \subseteq metrics_endpoint_names)

\* What the steps of create_application may meet: the result of
\* initialize_telemetry(), create_telemetry_middleware() raising,
\* app.add_route raising in add_metrics_endpoint, and config.load(),
\* register_http_endpoint or a hook raising.
StartupOutcomes ==
    [telemetry_initialized : BOOLEAN, middleware_raises : BOOLEAN,
     routes_raise : BOOLEAN, addok_raises : BOOLEAN]

\* The module wsgi_otel.py as gunicorn loads it: its imports, then
\* create_application() with the fallback to addok.http.wsgi.  application
\* is the WSGI callable the module ends up binding ("none": the import of
\* the module raised and nothing is bound).
wsgi_otel(o) ==
    IF falcon_middleware_import_raises
    THEN [raised |-> TRUE, application |-> "none", middlewares |-> <<>>, routes |-> {}]
    ELSE IF o.addok_raises
    THEN [raised |-> FALSE, application |-> "addok.http.wsgi",
          middlewares |-> <<"CorsMiddleware">>, routes |-> {}]
    ELSE [raised |-> FALSE, application |-> "create_application",
          middlewares |-> IF o.middleware_raises THEN <<"CorsMiddleware">>
                          ELSE <<"CorsMiddleware", "telemetry_middleware">>,
          routes |-> IF o.routes_raise THEN {} ELSE {P_metrics, P_health_metrics}]

\* /metrics was scraped
Scraped == call.fn = "MetricsResource.on_get"

\* recordings were made on the registry
Called_registry == call.fn = "registry"

\* a helper is called once, on fresh inputs
AtHelpers == pc = "helpers" /\ call = NoCall

\* resp.status values: None, falcon status lines, the line of
\* HealthMetricsResource, and bare or truncated codes
StatusLines ==
    {<<>>, HTTP_200, HTTP_404, HTTP_500, HealthStatusLine(200), S_200, Take(S_200, 2)}

\* what json.loads(resp.text) may give
JsonKinds == {"invalid", "dict", "list", "scalar"}

\* len(data['features']); -1: the value has no length (null, number, boolean)
FeatureLengths == {-1, 0, 1, 3}

\* resp.text values: empty or absent, or a text that may contain the
\* substring 'features' (a key written with escapes does not), may parse as
\* JSON, and as a dict may have the key 'features'
Bodies ==
    {NoBody} \cup
    {Body(TRUE, mentions, json, has_key, len) :
        mentions \in BOOLEAN, json \in JsonKinds, has_key \in BOOLEAN,
        len \in FeatureLengths}

EstimateResultsCount ==
    /\ AtHelpers
    /\ \E status \in StatusLines, body \in Bodies :
         call' = Call("_estimate_results_count", [status |-> status, body |-> body],
                      _estimate_results_count(status, body))
    /\ UNCHANGED worker

\* request paths around the prefixes of the table
HelperPaths ==
    {P_search, P_search \o <<"/">> \o S_search, P_search \o <<"x">>,
     P_reverse, P_reverse \o <<"/">>, P_health, P_health_metrics,
     P_metrics, P_metrics \o <<"2">>, P_other, <<"/">>, Take(P_search, 5),
     <<"/", "a", "p", "i">> \o P_search, P_other \o P_health}

HelperMethods == {S_GET, <<"P", "O", "S", "T">>}

GetOperationName ==
    /\ AtHelpers
    /\ \E method \in HelperMethods, path \in HelperPaths :
         call' = Call("_get_operation_name", [method |-> method, path |-> path],
                      _get_operation_name(method, path))
    /\ UNCHANGED worker

\* X-Forwarded-For values: absent, empty, one address, a list, a list
\* with blanks around the first address, a list with an empty first entry
ForwardedHeaders ==
    {Absent, Given(<<>>), Given(<<"1">>), Given(<<"1", ",", " ", "5">>),
     Given(<<" ", "1", " ", ",", "5">>), Given(<<",", "5">>)}

\* X-Real-IP values
RealIpHeaders == {Absent, Given(<<>>), Given(<<"9">>)}

\* req.remote_addr values
PeerAddresses == {Given(<<"7">>), Given(<<>>), Absent}

GetClientIp ==
    /\ AtHelpers
    /\ \E forwarded \in ForwardedHeaders, real_ip \in RealIpHeaders,
          remote_addr \in PeerAddresses :
         call' = Call("_get_client_ip",
                      [forwarded |-> forwarded, real_ip |-> real_ip,
                       remote_addr |-> remote_addr],
                      _get_client_ip(forwarded, real_ip, remote_addr))
    /\ UNCHANGED worker

\* a query string of n characters, no two neighbours alike
QueryOfLength(n) == [i \in 1..n |-> Digits[(i % 10) + 1]]

\* lengths around the limit of the slice
QueryLengths == {0, 1, 50, 99, 100, 101, 150}

\* the q parameter: absent, or of one of these lengths
HelperQueries == {NoQuery} \cup {Query(QueryOfLength(n)) : n \in QueryLengths}

\* the limit parameter: absent, integers (zero and a negative one among
\* them), and values int() rejects
HelperLimits ==
    {NoQuery, Query(<<"0">>), Query(<<"3">>), Query(<<"1", "0">>), Query(<<"-", "1">>),
     Query(<<" ", "7">>), Query(<<"a", "b", "c">>), Query(<<"2", ".", "5">>), Query(<<>>)}

\* the autocomplete parameter: absent, true and false spellings, others
HelperFlags ==
    {NoQuery, Query(<<"t", "r", "u", "e">>), Query(<<"f", "a", "l", "s", "e">>),
     Query(<<"0">>), Query(<<"1">>),
     Query(<<"m", "a", "y", "b", "e">>)}

\* the limit and autocomplete attributes process_request writes to the span
SetSpanAttributes ==
    /\ AtHelpers
    /\ \E limit \in HelperLimits, autocomplete \in HelperFlags :
         call' = Call("span.set_attributes",
                      [limit |-> limit, autocomplete |-> autocomplete],
                      [limit |-> addok_limit(limit),
                       autocomplete |-> addok_autocomplete(autocomplete)])
    /\ UNCHANGED worker

SetQueryAttribute ==
    /\ AtHelpers
    /\ \E q \in HelperQueries :
         call' = Call("addok.query", [q |-> q], addok_query(q))
    /\ UNCHANGED worker

\* the telemetry object with the metrics dict empty or filled
HelperTelemetry == {NewTelemetry, [NewTelemetry EXCEPT !.metrics = TRUE]}

\* label values, the empty one included
HelperLabels == {<<>>, S_search, S_error}

\* the recording functions on their inputs: what each would record
MetricCalls ==
    {[fn |-> "record_http_request", events |-> record_http_request(S_GET, l, c, 1)] :
        l \in HelperLabels, c \in {200, 500}}
    \cup {[fn |-> "record_geocoding_operation",
           events |-> record_geocoding_operation(l, k, 1)] :
        l \in HelperLabels, k \in HelperLabels}
    \cup {[fn |-> "record_error", events |-> record_error(l)] : l \in HelperLabels}
    \cup {[fn |-> "telemetry.record_geocoding_request",
           events |-> telemetry_record_geocoding_request(tel, l, k, 1, n, n)] :
        tel \in HelperTelemetry, l \in HelperLabels, k \in HelperLabels, n \in {0, 30}}
    \cup {[fn |-> "telemetry.record_error",
           events |-> telemetry_record_error(tel, l, k)] :
        tel \in HelperTelemetry, l \in HelperLabels, k \in HelperLabels}

RecordMetric ==
    /\ AtHelpers
    /\ \E c \in MetricCalls, failing \in 0..2 :
         call' = Call(c.fn, [events |-> c.events, failing |-> failing],
                      Recording(c.events, failing))
    /\ UNCHANGED worker

\* increment_active_requests on its own: add() may raise inside the try
IncrementActiveRequests ==
    /\ AtHelpers
    /\ \E tel \in HelperTelemetry, delta \in {-1, 1}, failing \in BOOLEAN :
         call' = Call("increment_active_requests",
                      [tel |-> tel, delta |-> delta, failing |-> failing],
                      IF failing /\ tel.metrics THEN gauge
                      ELSE increment_active_requests(tel, gauge, delta))
    /\ UNCHANGED worker

\* The hooks of the middleware as Falcon may call them on one telemetry
\* object: process_request and process_response of a request, a
\* process_response for a request whose process_request was skipped (an
\* earlier middleware completed or failed the request; the hook then takes
\* time.time() as the default of start_time), and the metrics set becoming
\* initialized.  in_flight counts the requests that ran process_request and
\* not yet process_response.
ActiveRequestsHooks ==
    /\ pc = "helpers"
    /\ call.fn \in {"none", "active_requests"}
    /\ LET first == call.fn = "none"
           n == IF first THEN 0 ELSE call.args.hooks
           tel == IF first THEN NewTelemetry ELSE call.result.tel
           g == IF first THEN gauge ELSE call.result.gauge
           in_flight == IF first THEN 0 ELSE call.result.in_flight
       IN /\ n < MaxHooks
          /\ \E hook \in {"process_request", "process_response",
                          "process_response_only", "initialize_metrics"} :
               /\ hook = "process_response" => in_flight > 0
               /\ hook = "initialize_metrics" => ~tel.metrics
               /\ call' = Call("active_requests", [hook |-> hook, hooks |-> n + 1],
                     CASE hook = "process_request" ->
                            [tel |-> tel, in_flight |-> in_flight + 1,
                             gauge |-> increment_active_requests(tel, g, 1)]
                       [] hook = "process_response" ->
                            [tel |-> tel, in_flight |-> in_flight - 1,
                             gauge |-> increment_active_requests(tel, g, -1)]
                       [] hook = "process_response_only" ->
                            [tel |-> tel, in_flight |-> in_flight,
                             gauge |-> increment_active_requests(tel, g, -1)]
                       [] OTHER ->
                            [tel |-> [tel EXCEPT !.metrics = TRUE],
                             in_flight |-> in_flight, gauge |-> g])
    /\ UNCHANGED worker

\* GET /metrics
MetricsOnGet ==
    /\ pc = "helpers"
    /\ call.fn \in {"none", "MetricsResource.on_get"}
    /\ LET now == IF Scraped THEN call.args.now + 1 ELSE 1
           gauges == IF Scraped THEN call.result.gauges ELSE ImportGauges
       IN /\ now <= MaxScrapes
          /\ \E fault \in MetricsFaults :
               call' = Call("MetricsResource.on_get",
                            [gauges |-> gauges, now |-> now, fault |-> fault],
                            MetricsResource_on_get(gauges, now, fault))
    /\ UNCHANGED worker

\* GET /health/metrics, seen from the client
HealthOnGet ==
    /\ AtHelpers
    /\ \E outcome \in HealthOutcomes :
         call' = Call("HealthMetricsResource.on_get", [outcome |-> outcome],
                      HealthMetricsResource_on_get(outcome))
    /\ UNCHANGED worker

\* initialize_tracing on a new AddokTelemetry, the global provider unset
InitializeTracing ==
    /\ AtHelpers
    /\ \E env \in Environments, outcome \in TracingOutcomes :
         call' = Call("initialize_tracing", [env |-> env, outcome |-> outcome],
                      initialize_tracing(NewTelemetry, 0, env, outcome))
    /\ UNCHANGED worker

\* gunicorn imports the application module in the worker
LoadApplication ==
    /\ AtHelpers
    /\ \E o \in StartupOutcomes :
         call' = Call("wsgi_otel", o, wsgi_otel(o))
    /\ UNCHANGED worker

\* initialize_all on a new AddokTelemetry, and on one it has initialized
InitializeAll ==
    /\ AtHelpers
    /\ \E first \in BOOLEAN, env \in Environments, tracing \in TracingOutcomes,
          metrics \in MetricsOutcomes, datadog \in DatadogOutcomes :
         LET new == IF first THEN [tel |-> NewTelemetry, gtp |-> 0]
                    ELSE initialize_all(NewTelemetry, 0, env, "ok", "ok", "ok")
         IN call' = Call("initialize_all",
                         [tel |-> new.tel, gtp |-> new.gtp, env |-> env,
                          tracing |-> tracing, metrics |-> metrics, datadog |-> datadog],
                         initialize_all(new.tel, new.gtp, env, tracing, metrics, datadog))
    /\ UNCHANGED worker

\* recording functions called one after the other on the registry of a
\* process, any of them possibly failing part-way
RecordInRegistry ==
    /\ pc = "helpers"
    /\ call.fn \in {"none", "registry"}
    /\ LET n == IF Called_registry THEN call.args.recordings ELSE 0
           registry == IF Called_registry THEN call.result ELSE <<>>
       IN /\ n < MaxRecordings
          /\ \E c \in MetricCalls, failing \in 0..2 :
               call' = Call("registry", [recordings |-> n + 1],
                            Recorded(registry, Recording(c.events, failing).events))
    /\ UNCHANGED worker

NextHelpers ==
    \/ LoadApplication
    \/ InitializeAll
    \/ InitializeTracing
    \/ MetricsOnGet
    \/ HealthOnGet
    \/ EstimateResultsCount
    \/ GetOperationName
    \/ GetClientIp
    \/ SetQueryAttribute
    \/ RecordMetric
    \/ IncrementActiveRequests
    \/ RecordInRegistry
    \/ ActiveRequestsHooks
    \/ SetSpanAttributes

SpecHelpers == InitHelpers /\ [][NextHelpers]_vars

----------------------------------------------------------------------------
(* Properties *)

Done(t) == req[t].phase = "done"

\* no request is between its process_request and its process_response
AtRest == \A t \in Threads : req[t].phase \in {"idle", "done"}

\* the recordings a request made in the series of `metric`
Count(r, metric) == Len(SelectSeq(r.recorded, LAMBDA e : e.metric = metric))

\* the recordings a request made in the series of `metric` with these labels
CountLabelled(r, metric, labels) ==
    Len(SelectSeq(r.recorded, LAMBDA e : e.metric = metric /\ e.labels = labels))

\* process_request raised after trace.context_api.attach: the except clause
\* cleared the token slot of a request whose context was attached
FailedAfterAttach(t) == req[t].attached /\ ~req[t].otel_token.set

\* the span the request carries was ended by process_response
SpanCompleted(t) ==
    /\ Done(t)
    /\ req[t].otel_span # 0
    /\ spans[req[t].otel_span].state = "ENDED"

(* C1: every span started by process_request has been ended exactly once   *)
(* when process_response has returned, whatever the handler outcome and    *)
(* resp.status (no tracing API call being made to raise).                  *)
C1_SpanEndedExactlyOnce ==
    \A t \in Threads :
        Done(t) /\ req[t].started # 0 /\ ~injected => spans[req[t].started].ends = 1

(* C2: once no request is in flight, as many +1 as -1 updates were applied *)
(* to the active-request gauge.                                            *)
C2_GaugeBalanced == AtRest => gauge.incs = gauge.decs

C2_Witness == AtRest /\ served >= 2 /\ gauge.incs >= 2 /\ gauge.decs = gauge.incs

(* C3: when process_request fails after attaching the extracted context,   *)
(* the context is still detached and a span already started is still ended *)
(* before the request completes.                                           *)
C3_FailureStillReleases ==
    \A t \in Threads :
        Done(t) /\ FailedAfterAttach(t) =>
            /\ req[t].detached
            /\ req[t].started # 0 => spans[req[t].started].ends = 1

(* C4: with no request in progress on a thread, its ambient trace context  *)
(* is the one observed before the first request (no tracing API call      *)
(* being made to raise).                                                   *)
C4_AmbientRestored ==
    \A t \in Threads :
        req[t].phase \in {"idle", "done"} /\ ~injected => ambient[t] = "empty"

(* C5: a span only moves NOT_STARTED -> ACTIVE -> ENDED: a request starts  *)
(* at most one span, a new span is ACTIVE, an ENDED span stays ENDED, is   *)
(* ended once, and receives no attribute or status write after its end.    *)
C5_SpanLifecycle ==
    [][ /\ \A id \in DOMAIN spans' :
             /\ spans'[id].late = 0
             /\ spans'[id].ends <= 1
             /\ spans'[id].state = "ENDED" <=> spans'[id].ends = 1
             /\ id \notin DOMAIN spans => spans'[id].state = "ACTIVE"
             /\ id \in DOMAIN spans /\ spans[id].state = "ENDED"
                    => spans'[id].state = "ENDED"
        /\ \A t \in Threads :
             req'[t].serial = req[t].serial /\ req[t].started # 0
                 => req'[t].started = req[t].started
      ]_vars

C5_Witness ==
    \E t \in Threads :
        /\ SpanCompleted(t)
        /\ spans[req[t].otel_span].resource = "Search"
        /\ spans[req[t].otel_span].status = "error"
        /\ spans[req[t].otel_span].late = 0

(* C6: no hook of either middleware lets an exception escape to Falcon,    *)
(* whichever telemetry call inside it raises.                              *)
C6_NoExceptionEscapes == \A t \in Threads : ~req[t].escaped

C6_Witness ==
    \E t \in Threads :
        /\ Done(t)
        /\ FailedAfterAttach(t)
        /\ StatusCode(req[t].status).raised
        /\ ~req[t].escaped

(* C7: the hooks leave the response as the handler produced it (before the *)
(* handler: as Falcon created it), whether telemetry steps fail or not.    *)
C7_ResponseUnchanged ==
    \A t \in Threads :
        req[t].phase # "idle" =>
            /\ req[t].status = req[t].handler_status
            /\ req[t].body = req[t].handler_body

C7_Witness ==
    \E t \in Threads :
        /\ Done(t)
        /\ req[t].middleware = "otel"
        /\ req[t].otel_span # 0
        /\ spans[req[t].otel_span].state = "ACTIVE"
        /\ req[t].status = HealthStatusLine(200)

(* C8: with no tracer available the request has no span and no attached    *)
(* context, and process_response still computes the elapsed time from the  *)
(* stored start timestamp and records the HTTP request metrics.            *)
C8_DegradedModeRecordsHttp ==
    \A t \in Threads :
        Done(t) /\ get_tracer(telemetry) = 0 =>
            /\ req[t].otel_span = 0 /\ req[t].started = 0 /\ ~req[t].attached
            /\ req[t].start_time >= 0
            /\ req[t].duration = clock - req[t].start_time
            /\ Count(req[t], "addok_http_requests_total") = 1
            /\ Count(req[t], "addok_http_request_duration_seconds") = 1

(* C9: when process_response has completed a request that carries a span, *)
(* the span status is ok exactly when req_succeeded and the numeric status *)
(* is in [200,400), and error otherwise; on error exactly one error metric *)
(* keyed HTTP_<code> with the operation name is recorded, on ok none       *)
(* (telemetry metrics initialised, no tracing API call made to raise).     *)
C9_SpanStatusAndErrorMetric ==
    \A t \in Threads :
        Done(t) /\ req[t].otel_span # 0 /\ telemetry.metrics /\ ~injected =>
            LET r == req[t]
                sp == spans[r.otel_span]
                code == StatusCode(r.status)
                ok == r.succeeded /\ ~code.raised /\ 200 <= code.val /\ code.val < 400
                key == S_HTTP_ \o IntToStr(code.val)
                op == _get_operation_name(r.method, r.path)
            IN /\ sp.status = "ok" <=> ok
               /\ sp.status = "error" <=> ~ok
               /\ ok => /\ Count(r, "addok_errors_total") = 0
                        /\ Count(r, "otel_errors_total") = 0
               /\ ~ok => /\ Count(r, "otel_errors_total") = 1
                         /\ CountLabelled(r, "otel_errors_total", <<key, op>>) = 1

\* the request was served by the Search or the Reverse handler
Geocoding(t) == req[t].resource \in {"Search", "Reverse"}

\* the one geocoding counter increment of the request carries the operation
\* of its handler and the outcome C10 describes
C10_Outcome(t) ==
    LET r == req[t]
        n == _estimate_results_count(r.status, r.body)
        events == SelectSeq(r.recorded,
                            LAMBDA e : e.metric = "addok_geocoding_operations_total")
    IN /\ Len(events) = 1
       /\ events[1].labels[1] = (IF r.resource = "Search" THEN S_search ELSE S_reverse)
       /\ events[1].labels[2] = S_success <=> r.succeeded /\ n > 0
       /\ events[1].labels[2] = S_no_results <=> r.succeeded /\ n = 0
       /\ events[1].labels[2] = S_error <=> ~r.succeeded

(* C10 as stated: a Search or Reverse request records exactly one geocoding *)
(* outcome (success / no_results / error as described), any other request  *)
(* none.                                                                   *)
C10_GeocodingAlways ==
    \A t \in Threads :
        Done(t) =>
            IF Geocoding(t) THEN C10_Outcome(t)
            ELSE Count(req[t], "addok_geocoding_operations_total") = 0

(* C10 amended: under the tracing middleware a Search or Reverse request   *)
(* records exactly one geocoding outcome: success when the handler         *)
(* succeeded with a result count > 0, no_results when it succeeded with    *)
(* count 0, error when it failed; no other request records one, and the    *)
(* metrics-only middleware records none.                                   *)
C10_GeocodingOutcome ==
    \A t \in Threads :
        Done(t) =>
            IF Geocoding(t) /\ middleware.kind = "otel" THEN C10_Outcome(t)
            ELSE Count(req[t], "addok_geocoding_operations_total") = 0

C10_Witness ==
    \E t \in Threads :
        /\ Done(t) /\ middleware.kind = "otel"
        /\ req[t].resource = "Reverse" /\ req[t].succeeded
        /\ req[t].body = FeatureCollection(0)
        /\ CountLabelled(req[t], "addok_geocoding_operations_total",
                         <<S_reverse, S_no_results>>) = 1

\* the last helper call was one of fn
Called(fn) == call.fn = fn

\* 1 if the status line begins "200", else 0
StatusEstimate(status) ==
    IF Len(status) >= 3 /\ SubSeq(status, 1, 3) = <<"2", "0", "0">> THEN 1 ELSE 0

(* C11 as stated: the estimate is the number of entries of the results     *)
(* field when the body parses as structured data containing that field,   *)
(* and otherwise 1 if the status line begins "200" and 0 if it does not.   *)
C11_EstimateParsedBody ==
    Called("_estimate_results_count") =>
        LET b == call.args.body
        IN IF b.text /\ b.json = "dict" /\ b.has_key
           THEN call.result = b.len /\ b.len >= 0
           ELSE call.result = StatusEstimate(call.args.status)

(* C11 amended: the estimate is the length of the results field when the   *)
(* body text contains the substring 'features', parses as a JSON object    *)
(* with that key and the value of the key has a length; in every other    *)
(* case it is 1 if the status line begins "200" and 0 if it does not.      *)
C11_EstimateResultsCount ==
    Called("_estimate_results_count") =>
        LET b == call.args.body
        IN IF b.text /\ b.mentions /\ b.json = "dict" /\ b.has_key /\ b.len # -1
           THEN call.result = b.len
           ELSE call.result = StatusEstimate(call.args.status)

C11_Witness ==
    /\ Called("_estimate_results_count")
    /\ call.args.body = Body(TRUE, FALSE, "dict", TRUE, 3)
    /\ call.args.status = HTTP_200
    /\ call.result = 1

\* s begins with p
Begins(s, p) == Len(s) >= Len(p) /\ \A i \in 1..Len(p) : s[i] = p[i]

(* C12: the operation name follows the prefix table in order: geocode_search *)
(* for /search..., else geocode_reverse for /reverse..., else health_check *)
(* for /health..., else metrics for /metrics..., else "<METHOD> <path>".    *)
C12_OperationNameTable ==
    Called("_get_operation_name") =>
        LET path == call.args.path
            method == call.args.method
        IN call.result =
             CASE Begins(path, P_search) -> OP_geocode_search
               [] ~Begins(path, P_search) /\ Begins(path, P_reverse) -> OP_geocode_reverse
               [] ~Begins(path, P_search) /\ ~Begins(path, P_reverse)
                  /\ Begins(path, P_health) -> OP_health_check
               [] ~Begins(path, P_search) /\ ~Begins(path, P_reverse)
                  /\ ~Begins(path, P_health) /\ Begins(path, P_metrics) -> OP_metrics
               [] OTHER -> method \o <<" ">> \o path

C12_Witness ==
    /\ Called("_get_operation_name")
    /\ call.args.path = P_health_metrics
    /\ call.result = OP_health_check

\* the recordings of a request in the series of `metric`
EventsOf(r, metric) == SelectSeq(r.recorded, LAMBDA e : e.metric = metric)

(* C13: for every request the endpoint label of the HTTP request metrics   *)
(* is the derived operation name, and so are the span name and the         *)
(* endpoint label of the error metric when emitted, under either           *)
(* middleware.                                                             *)
C13_OneOperationName ==
    \A t \in Threads :
        Done(t) =>
            LET r == req[t]
                op == _get_operation_name(r.method, r.path)
                http == EventsOf(r, "addok_http_requests_total")
                      \o EventsOf(r, "addok_http_request_duration_seconds")
                errors == EventsOf(r, "otel_errors_total")
            IN /\ \A i \in 1..Len(http) : http[i].labels[2] = op
               /\ \A i \in 1..Len(errors) : errors[i].labels[2] = op
               /\ r.started # 0 => spans[r.started].name = op

\* the part of s before its first comma
RECURSIVE FirstEntry(_)
FirstEntry(s) ==
    IF s = <<>> \/ s[1] = "," THEN <<>> ELSE <<s[1]>> \o FirstEntry(Tail(s))

\* s without the blanks at its ends
RECURSIVE Trimmed(_)
Trimmed(s) ==
    IF s = <<>> THEN s
    ELSE IF s[1] = " " THEN Trimmed(Tail(s))
    ELSE IF s[Len(s)] = " " THEN Trimmed(SubSeq(s, 1, Len(s) - 1))
    ELSE s

(* C14 as stated: the client IP is the first comma-separated entry of      *)
(* X-Forwarded-For when that header is present, else the X-Real-IP value   *)
(* when present, else the transport peer address.                          *)
C14_ClientIpPresentHeaders ==
    Called("_get_client_ip") =>
        LET a == call.args
        IN call.result =
             IF a.forwarded.present THEN FirstEntry(a.forwarded.val)
             ELSE IF a.real_ip.present THEN a.real_ip.val
             ELSE a.remote_addr.val

(* C14 amended: the client IP is the first comma-separated entry of        *)
(* X-Forwarded-For with the blanks at its ends removed when that header is *)
(* present and not empty, else the X-Real-IP value when present and not    *)
(* empty, else the transport peer address, or "unknown" when there is none. *)
C14_ClientIpResolution ==
    Called("_get_client_ip") =>
        LET a == call.args
            set(h) == h.present /\ Len(h.val) > 0
        IN call.result =
             IF set(a.forwarded) THEN Trimmed(FirstEntry(a.forwarded.val))
             ELSE IF set(a.real_ip) THEN a.real_ip.val
             ELSE IF set(a.remote_addr) THEN a.remote_addr.val
             ELSE <<"u", "n", "k", "n", "o", "w", "n">>

C14_Witness ==
    /\ Called("_get_client_ip")
    /\ call.args.forwarded = Given(<<" ", "1", " ", ",", "5">>)
    /\ call.args.real_ip = Given(<<"9">>)
    /\ call.result = <<"1">>

(* C15: the query attribute is the first 100 characters of q: never longer *)
(* than 100, equal to q when q has at most 100 characters, empty when q is *)
(* absent.                                                                 *)
C15_QueryAttribute ==
    Called("addok.query") =>
        LET q == call.args.q
            attr == call.result
        IN /\ Len(attr) <= 100
           /\ q.present => /\ Len(attr) <= Len(q.val)
                           /\ \A i \in 1..Len(attr) : attr[i] = q.val[i]
                           /\ Len(q.val) <= 100 => attr = q.val
                           /\ Len(q.val) > 100 => Len(attr) = 100
           /\ ~q.present => attr = <<>>

C15_Witness ==
    /\ Called("addok.query")
    /\ Len(call.args.q.val) = 150
    /\ Len(call.result) = 100
    /\ call.result[100] = call.args.q.val[100]

\* the recording functions of metrics_endpoint.py and telemetry.py
RecordingFunctions ==
    {"record_http_request", "record_geocoding_operation", "record_error",
     "telemetry.record_geocoding_request", "telemetry.record_error"}

(* C16: every metric recording operation returns normally for every input, *)
(* empty labels included; when an underlying recording fails, nothing is   *)
(* recorded in the series of the failing call (what was recorded before    *)
(* it stays, nothing after it is recorded).                                *)
C16_RecordingNeverRaises ==
    /\ call.fn \in RecordingFunctions =>
         LET all == call.args.events
             k == call.args.failing
             got == call.result.events
         IN /\ ~call.result.raised
            /\ k \in 1..Len(all) =>
                 /\ Len(got) = k - 1
                 /\ \A i \in 1..Len(got) : got[i] = all[i]
                 /\ \A i \in 1..Len(got) : got[i].metric # all[k].metric
            /\ k \notin 1..Len(all) => got = all
    /\ Called("increment_active_requests") =>
         /\ call.args.failing \/ ~call.args.tel.metrics => call.result = gauge
         /\ ~call.args.failing /\ call.args.tel.metrics =>
              call.result.incs + call.result.decs = gauge.incs + gauge.decs + 1

C16_Witness ==
    /\ Called("record_http_request")
    /\ call.args.failing = 2
    /\ call.args.events[1].labels[2] = <<>>
    /\ Len(call.result.events) = 1
    /\ ~call.result.raised

(* C17: GET /metrics answers 200 with a non-empty body whatever the render *)
(* steps do, and when a step raises the body is the explanatory comment    *)
(* line with the status still 200.                                         *)
C17_MetricsAlways200 ==
    Called("MetricsResource.on_get") =>
        /\ call.result.status = HTTP_200
        /\ call.result.text # ""
        /\ call.args.fault # "none" => call.result.text = "# Error generating metrics\n"

(* C18: GET /health/metrics answers status 200 with a body holding status, *)
(* timestamp, uptime_seconds, memory_usage_mb, cpu_percent and open_files  *)
(* when the health collection succeeds, and status 500 with a body whose   *)
(* status is "unhealthy" and which has an error field when it fails.       *)
C18_HealthStatusAndBody ==
    Called("HealthMetricsResource.on_get") =>
        IF call.args.outcome = "healthy"
        THEN /\ call.result.status = HTTP_200
             /\ {"status", "timestamp", "uptime_seconds", "memory_usage_mb",
                 "cpu_percent", "open_files"} \subseteq call.result.media.keys
        ELSE /\ call.result.status = HTTP_500
             /\ call.result.media.status = "unhealthy"
             /\ "error" \in call.result.media.keys

\* the one exporter installed by a call of initialize_tracing is `kind`
Installed(kind) == call.result.exporters = <<kind>>

\* the OTLP branch of initialize_tracing is taken
OtlpAttempted == call.args.env.otlp_endpoint /\ call.args.env.OTLP_AVAILABLE

(* C19 as stated: after initialize_tracing returns true exactly one span   *)
(* exporter is installed, OTLP when the endpoint is configured and the     *)
(* construction succeeds, console when it raises or no endpoint is set,    *)
(* and no exporter construction failure makes initialize_tracing fail.     *)
C19_NoExporterFailureFails ==
    Called("initialize_tracing") =>
        /\ call.result.ok =>
             /\ Len(call.result.exporters) = 1
             /\ OtlpAttempted /\ call.args.outcome = "ok" => Installed("otlp")
             /\ ~call.args.env.otlp_endpoint \/ call.args.outcome = "otlp_raises"
                  => Installed("console")
        /\ call.args.outcome \in {"otlp_raises", "processor_raises"} => call.result.ok

(* C19: after initialize_tracing returns true exactly one span exporter is *)
(* installed: OTLP when the endpoint is set, the OTLP package is imported  *)
(* and the construction succeeds, console otherwise; a failing OTLP        *)
(* construction never makes initialize_tracing fail, which returns false   *)
(* only when the provider or the console processor cannot be constructed.  *)
C19_ExporterSelection ==
    Called("initialize_tracing") =>
        /\ call.result.ok =>
             IF OtlpAttempted /\ call.args.outcome = "ok"
             THEN Installed("otlp") ELSE Installed("console")
        /\ call.args.outcome = "otlp_raises" => call.result.ok
        /\ ~call.result.ok =>
             /\ call.args.outcome \in {"provider_raises", "processor_raises"}
             /\ call.result.exporters = <<>>

\* the OTLP construction raised and the console exporter took its place
C19_Witness ==
    /\ Called("initialize_tracing")
    /\ OtlpAttempted
    /\ call.args.outcome = "otlp_raises"
    /\ call.result.ok
    /\ Installed("console")

(* C20: across the initialize_telemetry calls of one process (post_fork,   *)
(* then create_application), whatever their outcomes, the tracer provider  *)
(* with its span exporter is set up at most once: once the telemetry       *)
(* object holds a provider no step replaces it.                            *)
C20_ProviderSetUpOnce ==
    [][telemetry.tracer_provider # 0 =>
           telemetry'.tracer_provider = telemetry.tracer_provider]_vars

(* C21: application start-up yields a servable WSGI application for every  *)
(* outcome of telemetry initialization, of telemetry middleware creation   *)
(* and of metrics-route registration: none of these aborts start-up.       *)
C21_StartupYieldsApplication ==
    Called("wsgi_otel") => ~call.result.raised /\ call.result.application # "none"

\* process_response ended the span of the request of thread t
EndedInResponse(t) ==
    /\ Done(t)
    /\ req[t].otel_span # 0
    /\ spans[req[t].otel_span].ends = 1

\* the span end of thread t's request was followed by one force_flush with
\* a timeout on telemetry.tracer_provider, and a failure of it was swallowed
FlushedAfterEnd(t) ==
    /\ Len(req[t].flushed) = 1
    /\ req[t].flushed[1].provider = telemetry.tracer_provider
    /\ req[t].flushed[1].provider # 0
    /\ req[t].flushed[1].timeout_millis = 1000
    /\ ~req[t].escaped

C23_DatadogNoInterference ==
    Called("initialize_all") =>
        \A datadog \in DatadogOutcomes :
            LET a == call.args
                other == initialize_all(a.tel, a.gtp, a.env, a.tracing, a.metrics, datadog)
            IN /\ other.ok = call.result.ok
               /\ other.tel = call.result.tel
               /\ other.gtp = call.result.gtp

\* tracing and metrics were initialized while the Datadog setup raised
C23_Witness ==
    /\ Called("initialize_all")
    /\ ~call.args.tel.initialized
    /\ call.args.datadog = "raises"
    /\ ~call.result.datadog
    /\ call.result.ok
    /\ call.result.tel.tracer # 0 /\ call.result.tel.initialized

\* thread t runs process_response in this step while the request of another
\* thread is between its two hooks
RespondsAmidOthers(t) ==
    /\ req[t].phase = "handled" /\ req'[t].phase = "done"
    /\ \E u \in Threads \ {t} : req[u].phase \in {"requested", "routed", "handled"}

\* the step changes no span, token, start time or context of another request
OthersUntouched(t) ==
    /\ \A u \in Threads \ {t} : req'[u] = req[u] /\ ambient'[u] = ambient[u]
    /\ \A id \in DOMAIN spans : id # req[t].started => spans'[id] = spans[id]

OtelRequestStep(t) ==
    req[t].phase = "idle" /\ req'[t].phase = "requested" /\ req'[t].middleware = "otel"

(* C25: in process_request with a tracer available the upstream context is *)
(* extracted from the headers and attached as the ambient context before   *)
(* the span is started: the span's parent is the remote context when the   *)
(* headers carry one and the span is a trace root otherwise, and the token *)
(* stored for the request is the one of that attach (it remembers the      *)
(* ambient context the attach replaced).                                   *)
C25_ParentFromHeaders ==
    [][\A t \in Threads :
          OtelRequestStep(t) =>
              LET r == req'[t]
                  ctx == IF r.traceparent THEN "remote" ELSE "empty"
              IN /\ middleware'.tracer # 0 /\ ~injected' => r.otel_span # 0
                 /\ r.started # 0 =>
                      /\ r.started \notin DOMAIN spans
                      /\ spans'[r.started].parent = ctx
                      /\ r.attached /\ ambient'[t] = ctx
                 /\ r.otel_span # 0 =>
                      /\ r.otel_span = r.started
                      /\ r.otel_token = [set |-> TRUE, prev |-> ambient[t]]
                 /\ r.otel_span = 0 => ~r.otel_token.set
      ]_vars

\* a request with trace headers holds a span whose parent is the remote
\* context, and a token for the context left attached by an earlier request
C25_Witness ==
    \E t \in Threads :
        /\ req[t].phase = "requested" /\ req[t].traceparent
        /\ req[t].otel_span # 0
        /\ spans[req[t].otel_span].parent = "remote"
        /\ req[t].otel_token.set
        /\ ambient[t] = "remote"

\* the recordings of a request in the OpenTelemetry geocoding instruments
OtelGeocodingEvents(r) ==
    SelectSeq(r.recorded,
              LAMBDA e : e.metric \in {"otel_geocoding_requests_total",
                                       "otel_geocoding_requests_duration"})

(* C26: for a Reverse handler the geocoding metric is recorded with the    *)
(* same endpoint / status / results policy as for Search, and its          *)
(* attributes carry no query-length dimension: they are exactly endpoint,  *)
(* status and results range.                                               *)
C26_ReverseNoQueryLength ==
    \A t \in Threads :
        Done(t) /\ req[t].resource = "Reverse" /\ ~injected =>
            LET r == req[t]
                n == _estimate_results_count(r.status, r.body)
                events == OtelGeocodingEvents(r)
            IN \A i \in 1..Len(events) :
                   events[i].labels = <<S_reverse, GeocodingStatus(r.succeeded, n),
                                        _get_results_range(n)>>

(* C27: over any sequence of recording operations every counter series is  *)
(* non-decreasing and the set of label combinations of each metric only    *)
(* grows: a series once recorded stays in the registry with a value at     *)
(* least as large as before.                                               *)
C27_SeriesOnlyGrow ==
    [][Called_registry /\ call'.fn = "registry" =>
          \A s \in DOMAIN call.result :
              /\ s \in DOMAIN call'.result
              /\ call'.result[s] >= call.result[s]
      ]_vars

\* a registry with several series, one of them written to more than once
C27_Witness ==
    /\ Called_registry
    /\ call.args.recordings >= 2
    /\ Cardinality(DOMAIN call.result) >= 2
    /\ \E s \in DOMAIN call.result : call.result[s] >= 2

\* the readings whose failure _update_system_metrics swallows
ReadingFaults == {"psutil", "cpu_percent", "num_fds"}

(* C28 as stated: on every GET /metrics the process gauges are recomputed  *)
(* before the registry is serialized: the serialized values are those      *)
(* computed during that same request, never one left from an earlier       *)
(* scrape.                                                                 *)
C28_GaugesFresh ==
    Scraped /\ call.result.samples # {} =>
        \A sample \in call.result.samples : sample[2] = call.args.now

(* C28 amended: on every GET /metrics the gauge update runs before the     *)
(* registry is serialized, so the serialized values are those the registry *)
(* holds after the update of that same request; they are the values        *)
(* computed during the request whenever the process readings succeed. When *)
(* a reading raises the update stops there silently: the gauges not yet    *)
(* set keep the value of the earlier scrape or of the import, and that     *)
(* value is serialized.                                                    *)
C28_GaugesUpdatedBeforeSerialization ==
    Scraped =>
        LET now == call.args.now
            before == call.args.gauges
            after == call.result.gauges
            samples == call.result.samples
        IN /\ samples # {} => samples = {<<g, after[g]>> : g \in DOMAIN after}
           /\ call.args.fault \notin {"generate_latest", "decode"} => samples # {}
           /\ call.args.fault \notin ReadingFaults => \A g \in DOMAIN after : after[g] = now
           /\ call.args.fault \in ReadingFaults =>
                /\ after["open_files"] = before["open_files"]
                /\ \A g \in DOMAIN after : after[g] \in {now, before[g]}

\* a second scrape whose readings succeed serializes its own values over
\* those the first scrape left
C28_Witness ==
    /\ Scraped
    /\ call.args.now = 2
    /\ call.args.fault = "none"
    /\ \A g \in DOMAIN call.args.gauges : call.args.gauges[g] = 1
    /\ call.result.samples = {<<g, 2>> : g \in DOMAIN ImportGauges}

\* the error counter of the registry was incremented for the request
ErrorRecorded(r) == Count(r, "addok_errors_total") > 0

(* C29: in process_response for a request with a span the steps run in     *)
(* this order: HTTP status attribute set, span status classified (with the *)
(* error metric recorded on error), span ended, context detached with the  *)
(* remembered token, export flush triggered. Whatever step the hook        *)
(* reaches, the steps before it were made and the steps after it were not: *)
(* detach and flush never precede the span end, and nothing is written to  *)
(* the span after its end.                                                 *)
C29_CompletionOrder ==
    \A t \in Threads :
        Done(t) /\ req[t].otel_span # 0 =>
            LET r == req[t]
                sp == spans[r.otel_span]
                ended == sp.state = "ENDED"
            IN /\ sp.status # "unset" => sp.code # -1
               /\ ErrorRecorded(r) => sp.status = "error"
               /\ ended => /\ sp.code # -1 /\ sp.status # "unset"
                           /\ sp.status = "error" => ErrorRecorded(r)
                           /\ sp.ends = 1 /\ sp.late = 0
               /\ r.detached => ended
               /\ r.flushed # <<>> => ended /\ (r.otel_token.set => r.detached)
               /\ ~injected /\ ~StatusCode(r.status).raised =>
                    /\ ended /\ r.detached
                    /\ telemetry.tracer_provider # 0 => r.flushed # <<>>

\* a request answered with an error went through every step: status
\* attribute, ERROR status with the error metric, end, detach, flush
C29_Witness ==
    \E t \in Threads :
        /\ Done(t) /\ req[t].otel_span # 0 /\ ~injected
        /\ spans[req[t].otel_span].state = "ENDED"
        /\ spans[req[t].otel_span].status = "error"
        /\ spans[req[t].otel_span].code = 404
        /\ ErrorRecorded(req[t])
        /\ req[t].detached
        /\ req[t].flushed # <<>>

(* C30: every request that reaches process_response increments the HTTP    *)
(* request counter exactly once and records exactly one duration           *)
(* observation, labelled with the request's method and its numeric status  *)
(* code (500 for an absent status), with or without a span and for every   *)
(* value of resp.status.                                                   *)
C30_HttpMetricsOnce ==
    \A t \in Threads :
        Done(t) /\ req[t].middleware \in {"otel", "metrics"} /\ ~injected =>
            LET r == req[t]
                counted == EventsOf(r, "addok_http_requests_total")
                observed == EventsOf(r, "addok_http_request_duration_seconds")
            IN /\ Len(counted) = 1
               /\ Len(observed) = 1
               /\ counted[1].labels[1] = r.method
               /\ observed[1].labels[1] = r.method
               /\ observed[1].value = r.duration
               /\ r.status = <<>> => counted[1].labels[3] = <<"5", "0", "0">>
               /\ r.status # <<>> => counted[1].labels[3] = Take(r.status, 3)

HttpMetricsFailed(r) == StatusCode(r.status).raised

\* recording the geocoding metrics of the request failed: len() of the
\* absent query of a Search
GeocodingMetricsFailed(r) == r.resource = "Search" /\ ~r.q.present

\* the requests between their process_request and their process_response
InFlight == {t \in Threads : req[t].phase \notin {"idle", "done"}}

(* C32: in process_response a failure while recording the HTTP metrics or   *)
(* the geocoding metrics (a resp.status or a body that does not parse      *)
(* included) prevents neither the gauge decrement before it nor the span   *)
(* completion after it: the decrement, the span end and the context detach *)
(* all happen for the request.                                             *)
C32_MetricFailureContained ==
    \A t \in Threads :
        /\ Done(t) /\ req[t].otel_span # 0 /\ ~injected
        /\ HttpMetricsFailed(req[t]) \/ GeocodingMetricsFailed(req[t])
        => /\ telemetry.metrics => gauge.incs - gauge.decs = Cardinality(InFlight)
           /\ spans[req[t].otel_span].state = "ENDED"
           /\ req[t].detached

(* C33: after process_request has returned by any path (span started, no   *)
(* tracer, internal failure) the request carries a start timestamp and,    *)
(* under the tracing middleware, a span slot and a token slot; the two     *)
(* slots are both set or both empty: no token is stored without its span   *)
(* and no span without its token.                                          *)
C33_SlotsPaired ==
    \A t \in Threads :
        req[t].phase # "idle" =>
            /\ req[t].start_time >= 0
            /\ req[t].middleware = "otel" => req[t].has_slots
            /\ req[t].otel_span # 0 <=> req[t].otel_token.set
            /\ req[t].otel_span # 0 => req[t].otel_span = req[t].started

\* process_request failed after it had started the span: both slots empty
C33_Witness ==
    \E t \in Threads :
        /\ req[t].phase = "requested" /\ req[t].middleware = "otel"
        /\ req[t].started # 0 /\ req[t].attached
        /\ req[t].has_slots /\ req[t].start_time >= 0
        /\ req[t].otel_span = 0 /\ ~req[t].otel_token.set

\* the request failed: req_succeeded false or a status outside [200,400)
FailedRequest(r) ==
    LET code == StatusCode(r.status)
    IN ~code.raised /\ (~r.succeeded \/ code.val < 200 \/ code.val >= 400)

(* C34: a failed request (req_succeeded false or a status outside          *)
(* [200,400)) increments the error counter exactly once, also when the     *)
(* request has no span (no tracer available, or the metrics-only           *)
(* middleware installed).                                                  *)
C34_FailureCountedOnce ==
    \A t \in Threads :
        Done(t) /\ FailedRequest(req[t]) /\ ~injected =>
            Count(req[t], "addok_errors_total") = 1

(* C35: create_telemetry_middleware returns the full tracing middleware    *)
(* exactly when the telemetry tracer is set at creation time and the       *)
(* metrics-only middleware otherwise; initialization runs before the       *)
(* application is created and a tracer once set stays set, so a successful *)
(* tracing initialization always yields the tracing middleware; and a      *)
(* tracing middleware that has obtained a tracer keeps it and starts a     *)
(* span for every later request (no tracing API call being made to raise). *)
C35_MiddlewareFollowsTracer ==
    [][/\ telemetry.tracer # 0 => telemetry'.tracer # 0
       /\ pc = "create_application" /\ pc' = "serving" =>
            middleware'.kind = (IF telemetry'.tracer # 0 THEN "otel" ELSE "metrics")
       /\ pc' \in {"serving", "exited"} =>
            /\ middleware'.kind \in {"otel", "metrics"}
            /\ middleware'.kind = "otel" <=> telemetry'.tracer # 0
            /\ pc = pc' => middleware'.kind = middleware.kind
       /\ middleware.tracer # 0 => middleware'.tracer # 0
       /\ \A t \in Threads :
            OtelRequestStep(t) =>
                /\ middleware'.tracer # 0
                /\ ~injected' => req'[t].started # 0 /\ req'[t].otel_span # 0
      ]_vars

\* the tracing middleware, created after a successful initialization,
\* started a span for its second request as well
C35_Witness ==
    \E t \in Threads :
        /\ pc = "serving" /\ middleware.kind = "otel" /\ middleware.tracer # 0
        /\ ~injected
        /\ req[t].serial = 2 /\ req[t].started # 0
        /\ spanStats.started = 2

(* C36: the limit attribute written to the span equals the request's limit *)
(* parameter whenever that parameter is a valid integer and the default 5  *)
(* when it is absent or unparseable; the autocomplete attribute equals the *)
(* request's boolean parameter when given and the default true when it is  *)
(* absent or unparseable.                                                  *)
C36_LimitAndAutocomplete ==
    Called("span.set_attributes") =>
        LET limit == call.args.limit
            autocomplete == call.args.autocomplete
        IN /\ IF limit.present /\ ~PyInt(limit.val).raised
              THEN call.result.limit = PyInt(limit.val).val
              ELSE call.result.limit = 5
           /\ IF autocomplete.present /\ autocomplete.val \in FALSE_STRINGS
              THEN call.result.autocomplete = FALSE
              ELSE call.result.autocomplete = TRUE

\* thread t runs OpenTelemetryMiddleware.process_resource in this step
OtelResourceStep(t) ==
    req[t].phase = "requested" /\ req'[t].phase = "routed" /\ req'[t].middleware = "otel"

(* C37: process_resource on a request with an active span adds exactly one *)
(* attribute, naming the handler type, and changes nothing else: the span  *)
(* stays ACTIVE and the gauge, the token, the start timestamp, the ambient *)
(* context and the metrics are unchanged; on a request without a span it   *)
(* changes nothing at all (the attribute is missing only when the          *)
(* set_attribute call itself is made to raise).                            *)
C37_ResourceAttributeOnly ==
    [][\A t \in Threads :
          OtelResourceStep(t) =>
              LET id == req[t].otel_span
                  named == [spans EXCEPT ![id] = [@ EXCEPT !.resource = req'[t].resource]]
              IN /\ req'[t] = [req[t] EXCEPT !.phase = "routed",
                                             !.resource = req'[t].resource]
                 /\ req'[t].resource = RouteOf(req[t].path)
                 /\ \A u \in Threads \ {t} : req'[u] = req[u]
                 /\ gauge' = gauge /\ ambient' = ambient /\ spanStats' = spanStats
                 /\ telemetry' = telemetry /\ middleware' = middleware
                 /\ id = 0 => spans' = spans
                 /\ id # 0 =>
                      /\ spans[id].state = "ACTIVE"
                      /\ spans' = spans \/ spans' = named
                      /\ ~injected' => spans' = named
                      /\ spans'[id].state = "ACTIVE"
      ]_vars

\* a routed request whose active span names its handler
C37_Witness ==
    \E t \in Threads :
        /\ req[t].phase = "routed" /\ req[t].otel_span # 0 /\ ~injected
        /\ req[t].resource = "Search"
        /\ spans[req[t].otel_span].resource = "Search"
        /\ spans[req[t].otel_span].state = "ACTIVE"
        /\ spans[req[t].otel_span].status = "unset"

====
